---- MODULE Spec2Model ----
(***************************************************************************)
(* Model of raspi-info-ticker: the TTL cache (services/cache_service.py),   *)
(* the smart-refresh display engine (services/display_service.py), the     *)
(* data providers over the cache, the screen sequencer                     *)
(* (config/display_config.py) and the main loop (main.py).                 *)
(***************************************************************************)
EXTENDS Integers, Sequences, FiniteSets, TLC

(***************************************************************************)
(* Bounds of the model.                                                    *)
(***************************************************************************)
\* the clock time.time() runs over 0..MaxTime (whole seconds)
MaxTime == 3
\* TTLs passed to set() and configured as default run over 0..MaxTtl
MaxTtl == 2
\* a DisplayConfig holds 1..MaxScreens screens
MaxScreens == 3
\* frames are displayed while refresh_count < MaxFrames
MaxFrames == 21
\* and while current_cycle < MaxCycles
MaxCycles == 4
\* a session's displayed frames are recorded in history up to MaxHist of them
MaxHist == 4

\* cache keys and cached payloads (opaque to the cache)
Keys == {"k1", "k2"}
Values == {"v1", "v2"}
\* Python's None, as returned by get() on a miss
None == "None"
TtlInputs == 0..MaxTtl
\* set(key, data) called without ttl: the parameter's default, ttl=None
NoTtl == -1

VARIABLES
    \* CacheService state
    _cache,          \* self._cache: dict key -> {'data','timestamp','ttl'}
    default_ttl,     \* self.default_ttl
    now,             \* the reading time.time() gives
    \* observation of the last cache call: its name, key argument and result
    lastOp,
    \* for each key, the arguments and time of the latest set(k, ..) not undone
    \* by invalidate(k)/clear()
    lastSet,
    \* how many cleanup_expired() calls have returned since the last set()
    \* (0, 1, or 2 for two and more)
    swept,
    \* DisplayService state
    simulation_mode,              \* self.simulation_mode
    refresh_count,                \* self.refresh_count
    partial_refresh_initialized,  \* self.partial_refresh_initialized
    last_screen_number,           \* self.last_screen_number
    base_image,                   \* self.base_image
    current_cycle,                \* self.current_cycle
    \* DisplayConfig: len(self.screens), the total_screens of every frame
    total_screens,
    \* observation of the last DisplayService call: its name, frame, the
    \* Display Capability calls it issued in order, and whether it raised
    lastCall,
    \* the frames pushed to the hardware since construction / the last
    \* initialization, as <<screen_number, action>>; Overflow once there are
    \* more than MaxHist
    history,
    \* self.fast_refresh_initialized: "unset" until display_image assigns it
    fast_refresh_initialized,
    \* what the Display Capability calls so far left on the panel: "unknown"
    \* before any, "baseline" after displayPartBaseImage returned, "cleared"
    \* after an init, Clear or init_fast since
    panel,
    \* CacheService.screen_cache_config: screen_type -> ttl overrides
    screen_cache_config,
    \* DisplayConfig: the provider screens named in SCREEN_ORDER
    screen_order,
    \* WeatherService.configured: an API key is set
    configured,
    \* DisplayConfig.crypto_source, the preferred_source of get_btc_prices
    crypto_source,
    \* observation of the last provider call: the provider, the outcome the
    \* upstream had ready, what the call returned and the sources it contacted
    lastFetch,
    \* for each caching provider, the data, time and ttl of its latest store
    stored,
    \* concurrent callers of one CacheService: for each caller the call it is
    \* in, its position in the call's code and its local variables
    threads,
    \* the store as it was before the concurrent callers started
    cache0,
    \* os.environ as the process finds it: CACHE_DEFAULT_TTL and the items of
    \* CACHE_PER_SCREEN
    environ,
    \* where the process is: before, after or failed in the construction of
    \* its services
    phase,
    \* DisplayConfig.screens (the ids of the screens) and .current_screen
    screens,
    current_screen,
    \* the number of next_screen() calls so far
    next_calls,
    \* CurrencyTicker.run: the statement it is at, its local screen_data and
    \* self._iteration_count
    run_pc,
    screen_data,
    iteration_count,
    \* the calls of DisplayService.cleanup() so far and the Display Capability
    \* calls the latest of them attempted
    cleanup_calls,
    cleanup_epd,
    \* last_screen_number, current_cycle and refresh_count of a second
    \* DisplayService, constructed in simulation mode
    twin

cacheVars == <<_cache, default_ttl, now, lastOp, lastSet, swept>>

displayVars == <<simulation_mode, refresh_count, partial_refresh_initialized,
                 last_screen_number, base_image, current_cycle, total_screens,
                 lastCall, history, fast_refresh_initialized, panel>>

providerVars == <<screen_cache_config, screen_order, configured,
                  crypto_source, lastFetch, stored>>

\* the configuration the providers run under, fixed at construction
configVars == <<screen_cache_config, screen_order, configured, crypto_source>>

threadVars == <<threads, cache0>>

twinVars == <<twin>>

appVars == <<environ, phase, screens, current_screen, next_calls, run_pc,
             screen_data, iteration_count, cleanup_calls, cleanup_epd>>

vars == <<_cache, default_ttl, now, lastOp, lastSet, swept,
          simulation_mode, refresh_count, partial_refresh_initialized,
          last_screen_number, base_image, current_cycle, total_screens,
          lastCall, history, fast_refresh_initialized, panel,
          screen_cache_config, screen_order, configured, crypto_source,
          lastFetch, stored,
          threads, cache0,
          environ, phase, screens, current_screen, next_calls, run_pc,
          screen_data, iteration_count, cleanup_calls, cleanup_epd,
          twin>>

(***************************************************************************)
(* CacheService                                                            *)
(***************************************************************************)
\* the dict entry set() builds: {'data': data, 'timestamp': time.time(), 'ttl': ttl}
Entry(data, timestamp, ttl) == [data |-> data, timestamp |-> timestamp, ttl |-> ttl]

\* del d[key] on a dict that holds key
DictDel(d, key) == [k \in (DOMAIN d) \ {key} |-> d[k]]

\* d[key] = e
DictPut(d, key, e) == [k \in (DOMAIN d) \cup {key} |-> IF k = key THEN e ELSE d[k]]

\* get(): current_time - cache_entry['timestamp'] > cache_entry['ttl']
get_expired(entry, current_time) == current_time - entry.timestamp > entry.ttl

\* get(): the value returned
get_ret(d, key, current_time) ==
    IF key \notin DOMAIN d THEN None
    ELSE IF get_expired(d[key], current_time) THEN None
    ELSE d[key].data

\* get() that answers None for an expired entry but leaves it in the dict
get_cache_keep(d, key, current_time) == d

\* get(): the store it leaves (lazy deletion of an expired entry)
get_cache(d, key, current_time) ==
    IF key \notin DOMAIN d THEN d
    ELSE IF get_expired(d[key], current_time) THEN DictDel(d, key)
    ELSE d

\* set() written as "ttl = ttl or self.default_ttl": 0 counts as omitted
set_ttl_falsy(ttl, dflt) == IF ttl = NoTtl \/ ttl = 0 THEN dflt ELSE ttl

\* set(): if ttl is None: ttl = self.default_ttl
set_ttl(ttl, dflt) == IF ttl = NoTtl THEN dflt ELSE ttl

\* set(): the store it leaves
set_cache(d, key, data, ttl, dflt, current_time) ==
    DictPut(d, key, Entry(data, current_time, set_ttl(ttl, dflt)))

\* invalidate() emptying the store
invalidate_cache_all(d, key) == [k \in {} |-> Entry(None, 0, 0)]

\* invalidate(): the store it leaves
invalidate_cache(d, key) == IF key \in DOMAIN d THEN DictDel(d, key) ELSE d

\* get_cache_stats() counting with < : an entry aged exactly ttl is expired
stats_valid_lt(entry, current_time) == current_time - entry.timestamp < entry.ttl

\* get_cache_stats(): current_time - entry['timestamp'] <= entry['ttl']
stats_valid(entry, current_time) == current_time - entry.timestamp <= entry.ttl

\* get_cache_stats() deleting the expired entries it counts
stats_cache_sweep(d, current_time) ==
    [k \in {k \in DOMAIN d : stats_valid(d[k], current_time)} |-> d[k]]

\* get_cache_stats(): the store it leaves (it assigns nothing)
stats_cache(d, current_time) == d

\* clear() returns None, not a count
NoCount == -1

\* get_cache_stats(): the counts of the dict it returns
get_cache_stats(d, current_time) ==
    [total_entries |-> Cardinality(DOMAIN d),
     valid_entries |-> Cardinality({k \in DOMAIN d : stats_valid(d[k], current_time)}),
     expired_entries |-> Cardinality({k \in DOMAIN d : ~stats_valid(d[k], current_time)})]

\* cleanup_expired() testing >= : an entry aged exactly ttl is swept
cleanup_is_expired_ge(entry, current_time) ==
    current_time - entry.timestamp >= entry.ttl

\* cleanup_expired(): current_time - entry['timestamp'] > entry['ttl']
cleanup_is_expired(entry, current_time) == current_time - entry.timestamp > entry.ttl

\* cleanup_expired(): expired_keys after the scan
expired_keys(d, current_time) == {k \in DOMAIN d : cleanup_is_expired(d[k], current_time)}

\* cleanup_expired() without its delete loop: expired entries are counted
\* and stay in the store
cleanup_cache_keep(d, current_time) == d

\* cleanup_expired(): the store after the delete loop
cleanup_cache(d, current_time) ==
    [k \in (DOMAIN d) \ expired_keys(d, current_time) |-> d[k]]

\* cleanup_expired(): return len(expired_keys)
cleanup_ret(d, current_time) == Cardinality(expired_keys(d, current_time))

NoStats == [total_entries |-> 0, valid_entries |-> 0, expired_entries |-> 0]
NoSet == [live |-> FALSE, data |-> None, timestamp |-> 0, ttl |-> 0]
Observed(op, key, ret, n, stats) ==
    [op |-> op, key |-> key, ret |-> ret, n |-> n, stats |-> stats]

\* values of CACHE_DEFAULT_TTL: the least and the greatest TTL
DefaultTtls == {0, MaxTtl}

\* CacheService.__init__: empty store, default TTL from the environment
CacheInit ==
    /\ _cache = [k \in {} |-> Entry(None, 0, 0)]
    /\ default_ttl \in DefaultTtls
    /\ now = 0
    /\ lastOp = Observed("init", "-", None, 0, NoStats)
    /\ lastSet = [k \in Keys |-> NoSet]
    /\ swept = 0

\* the clock advances between calls
Tick ==
    /\ now < MaxTime
    /\ now' = now + 1
    /\ lastOp' = Observed("tick", "-", None, 0, NoStats)
    /\ UNCHANGED <<_cache, default_ttl, lastSet, swept>>
    /\ UNCHANGED <<displayVars, providerVars, threadVars, twinVars, appVars>>

\* CacheService.get(key)
Get(key) ==
    /\ _cache' = get_cache(_cache, key, now)
    /\ lastOp' = Observed("get", key, get_ret(_cache, key, now), 0, NoStats)
    /\ UNCHANGED <<default_ttl, now, lastSet, swept>>
    /\ UNCHANGED <<displayVars, providerVars, threadVars, twinVars, appVars>>

\* CacheService.set(key, data, ttl) with ttl an integer or omitted (NoTtl)
Set(key, data, ttl) ==
    /\ _cache' = set_cache(_cache, key, data, ttl, default_ttl, now)
    /\ lastOp' = Observed("set", key, None, 0, NoStats)
    /\ lastSet' = [lastSet EXCEPT ![key] =
                     [live |-> TRUE, data |-> data, timestamp |-> now, ttl |-> ttl]]
    /\ swept' = 0
    /\ UNCHANGED <<default_ttl, now>>
    /\ UNCHANGED <<displayVars, providerVars, threadVars, twinVars, appVars>>

\* CacheService.invalidate(key)
Invalidate(key) ==
    /\ _cache' = invalidate_cache(_cache, key)
    /\ lastOp' = Observed("invalidate", key, None, 0, NoStats)
    /\ lastSet' = [lastSet EXCEPT ![key] = NoSet]
    /\ UNCHANGED <<default_ttl, now, swept>>
    /\ UNCHANGED <<displayVars, providerVars, threadVars, twinVars, appVars>>

\* CacheService.clear(): returns None
Clear ==
    /\ _cache' = [k \in {} |-> Entry(None, 0, 0)]
    /\ lastOp' = Observed("clear", "-", None, NoCount, NoStats)
    /\ lastSet' = [k \in Keys |-> NoSet]
    /\ UNCHANGED <<default_ttl, now, swept>>
    /\ UNCHANGED <<displayVars, providerVars, threadVars, twinVars, appVars>>

\* CacheService.get_cache_stats()
GetCacheStats ==
    /\ lastOp' = Observed("stats", "-", None, 0, get_cache_stats(_cache, now))
    /\ _cache' = stats_cache(_cache, now)
    /\ UNCHANGED <<default_ttl, now, lastSet, swept>>
    /\ UNCHANGED <<displayVars, providerVars, threadVars, twinVars, appVars>>

\* CacheService.cleanup_expired()
CleanupExpired ==
    /\ _cache' = cleanup_cache(_cache, now)
    /\ lastOp' = Observed("cleanup", "-", None, cleanup_ret(_cache, now), NoStats)
    /\ swept' = IF swept = 0 THEN 1 ELSE 2
    /\ UNCHANGED <<default_ttl, now, lastSet>>
    /\ UNCHANGED <<displayVars, providerVars, threadVars, twinVars, appVars>>

CacheNext ==
    \/ Tick
    \/ \E key \in Keys : Get(key)
    \/ \E key \in Keys, data \in Values, ttl \in TtlInputs : Set(key, data, ttl)
    \/ \E key \in Keys, data \in Values : Set(key, data, NoTtl)
    \/ \E key \in Keys : Invalidate(key)
    \/ Clear
    \/ GetCacheStats
    \/ CleanupExpired

(***************************************************************************)
(* DisplayService: refresh state and display_screen_with_smart_refresh     *)
(***************************************************************************)
\* self.last_screen_number = None (screen numbers are 1-based)
NoScreen == 0

\* the bitmaps create_display_image renders
Images == {"imgA", "imgB"}

\* the screen_data argument: None, an empty dict, or the dict that
\* DisplayConfig.get_current_screen_data builds
ScreenData(kind, screen_number, total, image) ==
    [kind |-> kind, screen_number |-> screen_number, total_screens |-> total,
     image |-> image]
AbsentData == {ScreenData("None", 1, 1, "imgA"), ScreenData("empty", 1, 1, "imgA")}
PresentData(total) ==
    {ScreenData("data", n, total, img) : n \in 1..total, img \in Images}
ScreenDatas(total) == AbsentData \cup PresentData(total)

\* the guard written as "if screen_data is None": an empty dict is displayed
not_screen_data_none_only(sd) == sd.kind = "None"

\* if not screen_data: return
not_screen_data(sd) == sd.kind \in {"None", "empty"}

\* the boundary test that exempts a single-screen configuration
cycle_completed_single_never(last, screen_num, total) ==
    last # NoScreen /\ screen_num = 1 /\ last = total /\ total > 1

\* the boundary test against a 0-based last index: last == total_screens - 1
cycle_completed_zero_based(last, screen_num, total) ==
    last # NoScreen /\ screen_num = 1 /\ last = total - 1

\* cycle_completed = (self.last_screen_number is not None and screen_num == 1
\*                    and self.last_screen_number == total_screens)
cycle_completed(last, screen_num, total) ==
    last # NoScreen /\ screen_num = 1 /\ last = total

\* an elif that never asks for a baseline
needs_baseline_never(initialized, base) == FALSE

\* elif not self.partial_refresh_initialized or self.base_image is None
needs_baseline(initialized, base) == ~initialized \/ base = None

\* the hardware branch without its cycle arm
refresh_branch_no_cycle(last, screen_num, total, initialized, base) ==
    IF needs_baseline(initialized, base) THEN "baseline" ELSE "partial"

\* which arm of the if / elif / else the hardware branch takes
refresh_branch(last, screen_num, total, initialized, base) ==
    IF cycle_completed(last, screen_num, total) THEN "cycle"
    ELSE IF needs_baseline(initialized, base) THEN "baseline"
    ELSE "partial"

\* the cycle arm falling through into the baseline arm
branch_ops_fallthrough(branch) ==
    IF branch = "cycle"
    THEN <<"init", "display", "displayPartBaseImage",
           "init", "display", "displayPartBaseImage">>
    ELSE IF branch = "baseline"
    THEN <<"init", "display", "displayPartBaseImage">>
    ELSE <<"displayPartial">>

\* the Display Capability calls of each arm, in program order
branch_ops(branch) ==
    IF branch \in {"cycle", "baseline"}
    THEN <<"init", "display", "displayPartBaseImage">>
    ELSE <<"displayPartial">>

\* the repaint an arm performs
branch_action(branch) ==
    IF branch \in {"cycle", "baseline"} THEN "FullRepaint" ELSE "PartialRepaint"

\* self.current_cycle after the frame: += 1 in the cycle arm, before any
\* Display Capability call (and in simulation mode when the cycle completed)
next_cycle(cycle, completed) == IF completed THEN cycle + 1 ELSE cycle

\* a counter of frames since the last full repaint: reset by a full repaint
next_refresh_count_reset(count, branch) ==
    IF branch \in {"cycle", "baseline"} THEN 0 ELSE count + 1

\* self.refresh_count += 1, the last statement of both branches, whatever
\* arm ("cycle", "baseline", "partial", or "simulation") was taken
next_refresh_count(count, branch) == count + 1

\* every arm, the partial one too, taking the frame for base_image
next_base_image_every_frame(base, branch, image, failed_at) ==
    IF failed_at = 0 \/ failed_at >= 3 THEN image ELSE base

\* the baseline arm without its self.base_image = image.copy()
next_base_image_cycle_only(base, branch, image, failed_at) ==
    IF branch = "cycle" /\ (failed_at = 0 \/ failed_at >= 3) THEN image ELSE base

\* self.base_image after the frame; the two full-repaint arms assign
\* image.copy() after display (call 2) and before displayPartBaseImage (call 3)
next_base_image(base, branch, image, failed_at) ==
    IF branch \in {"cycle", "baseline"} /\ (failed_at = 0 \/ failed_at >= 3)
    THEN image ELSE base

\* self.partial_refresh_initialized after the frame
next_initialized(initialized, branch, failed_at) ==
    IF branch \in {"cycle", "baseline"} /\ failed_at = 0 THEN TRUE ELSE initialized

\* a frame whose handler logs the failure and returns
frame_raised_swallowed(failed_at) == FALSE

\* except Exception as e: ...; raise
frame_raised(failed_at) == failed_at > 0

\* the Display Capability calls the frame issues, in order: those of its arm,
\* up to the one that raises
frame_epd(ops, failed_at) ==
    IF failed_at = 0 THEN ops ELSE SubSeq(ops, 1, failed_at)

\* failed_at: the position of the Display Capability call that failed, 0 if
\* none did
Call(op, sd, action, epd, failed_at, raised) ==
    [op |-> op, kind |-> sd.kind, screen_number |-> sd.screen_number,
     image |-> sd.image, action |-> action, epd |-> epd,
     failed_at |-> failed_at, raised |-> raised]

Overflow == <<<<NoScreen, "Overflow">>>>
Record(h, screen_num, action) ==
    IF h # Overflow /\ Len(h) < MaxHist THEN Append(h, <<screen_num, action>>)
    ELSE Overflow

\* the panel after the Display Capability calls epd of one method, the last
\* of which raised if failed_at > 0: a baseline is committed by a
\* displayPartBaseImage that returned and lost by any init, Clear or
\* init_fast attempted after it
panel_after(was, epd, failed_at) ==
    LET resets == {i \in 1..Len(epd) :
                     epd[i] \in {"init", "Clear", "init_fast", "displayPartBaseImage"}}
        last == CHOOSE i \in resets : \A j \in resets : j <= i
    IN  IF resets = {} THEN was
        ELSE IF epd[last] = "displayPartBaseImage"
                /\ ~(failed_at > 0 /\ last = Len(epd))
        THEN "baseline"
        ELSE "cleared"

\* the three fields after DisplayService.__init__
Constructed ==
    [last_screen_number |-> NoScreen, current_cycle |-> 0, refresh_count |-> 0]

\* the three fields of an instance in simulation mode after
\* display_screen_with_smart_refresh(screen_data): nothing for absent
\* screen_data, else the simulation branch
simulated_fields(fields, sd) ==
    IF not_screen_data(sd) THEN fields
    ELSE [last_screen_number |-> sd.screen_number,
          current_cycle |->
              next_cycle(fields.current_cycle,
                         cycle_completed(fields.last_screen_number,
                                         sd.screen_number, sd.total_screens)),
          refresh_count |-> next_refresh_count(fields.refresh_count, "simulation")]

\* DisplayService.__init__ (lines 67-72) with DisplayConfig's screen list
DisplayInit ==
    /\ simulation_mode \in BOOLEAN
    /\ refresh_count = 0
    /\ partial_refresh_initialized = FALSE
    /\ last_screen_number = NoScreen
    /\ base_image = None
    /\ current_cycle = 0
    /\ total_screens \in 1..MaxScreens
    /\ lastCall = Call("construct", ScreenData("None", 1, 1, "imgA"), "None", <<>>, 0, FALSE)
    /\ history = <<>>
    /\ fast_refresh_initialized = "unset"
    /\ panel = "unknown"
    /\ twin = Constructed

\* initialize_display(); failed_at = k > 0: the k-th Display Capability call raises
initialize_display(failed_at) ==
    /\ IF simulation_mode
       THEN /\ failed_at = 0
            /\ lastCall' = Call("initialize_display", ScreenData("None", 1, 1, "imgA"),
                                "None", <<>>, 0, FALSE)
            /\ UNCHANGED <<refresh_count, partial_refresh_initialized,
                           last_screen_number, base_image, current_cycle, history>>
       ELSE IF failed_at = 0
       THEN /\ partial_refresh_initialized' = FALSE
            /\ last_screen_number' = NoScreen
            /\ base_image' = None
            /\ current_cycle' = 0
            /\ refresh_count' = 0
            /\ lastCall' = Call("initialize_display", ScreenData("None", 1, 1, "imgA"),
                                "None", <<"init", "Clear">>, 0, FALSE)
            /\ history' = <<>>
       ELSE /\ lastCall' = Call("initialize_display", ScreenData("None", 1, 1, "imgA"),
                                "None", SubSeq(<<"init", "Clear">>, 1, failed_at),
                                failed_at, TRUE)
            /\ UNCHANGED <<refresh_count, partial_refresh_initialized,
                           last_screen_number, base_image, current_cycle, history>>
    /\ panel' = panel_after(panel, lastCall'.epd, failed_at)
    /\ UNCHANGED <<simulation_mode, total_screens, fast_refresh_initialized>>

\* DisplayService.initialize_display() called on its own
InitializeDisplay(failed_at) ==
    /\ initialize_display(failed_at)
    /\ UNCHANGED <<cacheVars, providerVars, threadVars, twinVars, appVars>>

\* display_screen_with_smart_refresh(screen_data) with absent screen_data
skip_frame(sd) ==
    /\ not_screen_data(sd)
    /\ lastCall' = Call("display_screen_with_smart_refresh", sd, "Skipped", <<>>, 0, FALSE)
    /\ UNCHANGED <<simulation_mode, refresh_count, partial_refresh_initialized,
                   last_screen_number, base_image, current_cycle, total_screens,
                   history, fast_refresh_initialized, panel>>

\* the call with absent screen_data, on its own
SkipFrame(sd) ==
    /\ skip_frame(sd)
    /\ UNCHANGED <<cacheVars, providerVars, threadVars, twinVars, appVars>>

\* display_screen_with_smart_refresh(screen_data), simulation branch
simulated_frame(sd) ==
    /\ ~not_screen_data(sd)
    /\ simulation_mode
    /\ refresh_count < MaxFrames
    /\ current_cycle' = next_cycle(current_cycle,
           cycle_completed(last_screen_number, sd.screen_number, sd.total_screens))
    /\ last_screen_number' = sd.screen_number
    /\ refresh_count' = next_refresh_count(refresh_count, "simulation")
    /\ lastCall' = Call("display_screen_with_smart_refresh", sd, "Simulated", <<>>, 0, FALSE)
    /\ UNCHANGED <<simulation_mode, partial_refresh_initialized, base_image,
                   total_screens, history, fast_refresh_initialized, panel>>

\* the call in simulation mode, on its own
SimulatedFrame(sd) ==
    /\ simulated_frame(sd)
    /\ UNCHANGED <<cacheVars, providerVars, threadVars, twinVars, appVars>>

\* display_screen_with_smart_refresh(screen_data), hardware branch;
\* failed_at = k > 0: the k-th Display Capability call of the arm raises
hardware_frame(sd, failed_at) ==
    LET branch == refresh_branch(last_screen_number, sd.screen_number,
                                 sd.total_screens, partial_refresh_initialized,
                                 base_image)
        ops == branch_ops(branch)
    IN  /\ ~not_screen_data(sd)
        /\ ~simulation_mode
        /\ refresh_count < MaxFrames
        /\ current_cycle < MaxCycles
        /\ failed_at <= Len(ops)
        /\ current_cycle' = next_cycle(current_cycle, branch = "cycle")
        /\ base_image' = next_base_image(base_image, branch, sd.image, failed_at)
        /\ partial_refresh_initialized' =
               next_initialized(partial_refresh_initialized, branch, failed_at)
        /\ IF failed_at = 0
           THEN /\ last_screen_number' = sd.screen_number
                /\ refresh_count' = next_refresh_count(refresh_count, branch)
                /\ lastCall' = Call("display_screen_with_smart_refresh", sd,
                                    branch_action(branch),
                                    frame_epd(ops, failed_at), failed_at,
                                    frame_raised(failed_at))
                /\ history' = Record(history, sd.screen_number, branch_action(branch))
           ELSE /\ UNCHANGED <<last_screen_number, refresh_count>>
                /\ lastCall' = Call("display_screen_with_smart_refresh", sd,
                                    branch_action(branch),
                                    frame_epd(ops, failed_at), failed_at,
                                    frame_raised(failed_at))
                /\ UNCHANGED history
        /\ panel' = panel_after(panel, frame_epd(ops, failed_at), failed_at)
        /\ UNCHANGED <<simulation_mode, total_screens, fast_refresh_initialized>>

\* the call on the hardware, on its own
HardwareFrame(sd, failed_at) ==
    /\ hardware_frame(sd, failed_at)
    /\ UNCHANGED <<cacheVars, providerVars, threadVars, twinVars, appVars>>

\* the arm of display_image's hardware branch for the incremented
\* refresh_count: the periodic full refresh, the fast refresh, or the
\* AttributeError of "if not self.fast_refresh_initialized" when __init__,
\* which never assigns the attribute, was the last to touch it
image_branch(count, fast) ==
    IF count % 20 = 0 THEN "full"
    ELSE IF fast = "unset" THEN "AttributeError"
    ELSE "fast"

\* the Display Capability calls of each arm, in program order
image_ops(branch, fast) ==
    IF branch = "full" THEN <<"init", "display", "init_fast">>
    ELSE IF branch = "AttributeError" THEN <<>>
    ELSE IF fast = "True" THEN <<"display_fast">>
    ELSE <<"init_fast", "display_fast">>

\* DisplayService.display_image(image); failed_at = k > 0: the k-th Display
\* Capability call of the arm raises.  The except clause logs and re-raises.
DisplayImage(image, failed_at) ==
    /\ refresh_count < MaxFrames
    /\ IF simulation_mode
       THEN /\ failed_at = 0
            /\ lastCall' = Call("display_image", ScreenData("data", 1, 1, image),
                                "Simulated", <<>>, 0, FALSE)
            /\ UNCHANGED <<refresh_count, fast_refresh_initialized, panel>>
       ELSE LET branch == image_branch(refresh_count + 1, fast_refresh_initialized)
                ops == image_ops(branch, fast_refresh_initialized)
            IN  /\ failed_at <= Len(ops)
                /\ refresh_count' = refresh_count + 1
                /\ fast_refresh_initialized' =
                      IF failed_at = 0 /\ branch # "AttributeError"
                      THEN "True" ELSE fast_refresh_initialized
                /\ lastCall' = Call("display_image", ScreenData("data", 1, 1, image),
                                    branch, frame_epd(ops, failed_at), failed_at,
                                    failed_at > 0 \/ branch = "AttributeError")
                /\ panel' = panel_after(panel, frame_epd(ops, failed_at), failed_at)
    /\ UNCHANGED <<simulation_mode, partial_refresh_initialized,
                   last_screen_number, base_image, current_cycle, total_screens,
                   history>>
    /\ UNCHANGED <<cacheVars, providerVars, threadVars, twinVars, appVars>>

\* the calls of a hardware session in which no Display Capability call fails
HardwareNext ==
    \/ InitializeDisplay(0)
    \/ \E sd \in ScreenDatas(total_screens) : SkipFrame(sd)
    \/ \E sd \in ScreenDatas(total_screens) : HardwareFrame(sd, 0)

\* absent screen_data handed to an instance on the hardware and to the
\* instance in simulation mode
TwinSkip(sd) ==
    /\ skip_frame(sd)
    /\ twin' = simulated_fields(twin, sd)
    /\ UNCHANGED <<cacheVars, providerVars, threadVars, appVars>>

\* one frame handed to an instance on the hardware, no Display Capability
\* call failing, and to the instance in simulation mode
TwinFrame(sd) ==
    /\ hardware_frame(sd, 0)
    /\ twin' = simulated_fields(twin, sd)
    /\ UNCHANGED <<cacheVars, providerVars, threadVars, appVars>>

\* every sequence of display_screen_with_smart_refresh calls, fed to both
TwinNext ==
    \/ \E sd \in ScreenDatas(total_screens) : TwinSkip(sd)
    \/ \E sd \in ScreenDatas(total_screens) : TwinFrame(sd)

\* the legacy entry point display_image after initialize_display
ImageNext ==
    \/ \E failed_at \in 0..2 : InitializeDisplay(failed_at)
    \/ \E image \in Images, failed_at \in 0..3 : DisplayImage(image, failed_at)

DisplayNext ==
    \/ \E failed_at \in 0..2 : InitializeDisplay(failed_at)
    \/ \E sd \in ScreenDatas(total_screens) : SkipFrame(sd)
    \/ \E sd \in ScreenDatas(total_screens) : SimulatedFrame(sd)
    \/ \E sd \in ScreenDatas(total_screens), failed_at \in 0..3 : HardwareFrame(sd, failed_at)

(***************************************************************************)
(* Data providers over the cache (services/weather_service.py,             *)
(* services/currency_service.py, services/crypto_service.py).              *)
(***************************************************************************)
\* screen_type names: the three the providers resolve and one nobody uses
Categories == {"weather", "exchange_rates", "bitcoin_prices", "news"}
\* CACHE_PER_SCREEN tables with overrides for some of the categories cats
Tables(cats) == UNION {[S -> TtlInputs] : S \in SUBSET cats}
\* what an upstream API has ready for a request: a usable response, an HTTP
\* or network error, a timeout, or a response the fetch function rejects
Outcomes == {"ok", "error", "timeout", "unusable"}

\* get_ttl_for_screen() ignoring the override table
get_ttl_for_screen_default(cfg, dflt, screen_type) == dflt

\* CacheService.get_ttl_for_screen: self.screen_cache_config.get(screen_type,
\* self.default_ttl)
get_ttl_for_screen(cfg, dflt, screen_type) ==
    IF screen_type \in DOMAIN cfg THEN cfg[screen_type] ELSE dflt

\* the payload a source delivers at current_time, identified by its source
\* and its 'timestamp' field
Fresh(source, current_time) == source \o "@" \o ToString(current_time)

\* a fetch function that takes an unusable response for data
fetch_lenient(source, outcome, current_time) ==
    IF outcome \in {"ok", "unusable"} THEN Fresh(source, current_time) ELSE None

\* _fetch_weather_from_api, get_exchange_rates, get_btc_prices_<source>:
\* the processed response, None on any exception or rejected response
fetch(source, outcome, current_time) ==
    IF outcome = "ok" THEN Fresh(source, current_time) ELSE None

\* cached_data_copy['timestamp'] = f"{original_time} (cached)"
mark_cached(data) == data \o " (cached)"

\* a provider that never looks its key up
cached_never(d, key, current_time) == None

\* cached_data = cache_service.get(cache_key)
cached(d, key, current_time) == get_ret(d, key, current_time)

\* get_weather_data / get_usd_brl_eur_brl_rates: the value returned
provider_ret(d, key, current_time, fresh) ==
    IF cached(d, key, current_time) # None
    THEN mark_cached(cached(d, key, current_time))
    ELSE fresh

\* a hit that marks the stored dict itself, not a copy of it
hit_cache_in_place(d, key) == [d EXCEPT ![key].data = mark_cached(@)]

\* cached_data = cached_data.copy(): the marker goes into the copy, the store
\* after a hit is the store before it
hit_cache(d, key) == d

\* ... the store the call leaves: after a hit the store as it was; after a
\* miss get()'s lazy deletion, then the set() of a fresh result
provider_cache(d, key, current_time, fresh, ttl, dflt) ==
    IF cached(d, key, current_time) # None
    THEN hit_cache(d, key)
    ELSE IF fresh # None
    THEN set_cache(get_cache(d, key, current_time), key, fresh, ttl, dflt,
                   current_time)
    ELSE get_cache(d, key, current_time)

\* ... the upstream sources the call contacted
provider_contacted(d, key, current_time, source) ==
    IF cached(d, key, current_time) # None THEN <<>> ELSE <<source>>

\* cache_key = f"weather_{self.city}_{self.country}"
WeatherKey == "weather_city_country"
\* cache_key = "exchange_rates_usd_eur_brl"
RatesKey == "exchange_rates_usd_eur_brl"
CachingProviders == {"weather", "exchange_rates"}
provider_key(p) == IF p = "weather" THEN WeatherKey ELSE RatesKey
provider_source(p) == IF p = "weather" THEN "openweathermap" ELSE "freecurrencyapi"

\* sources = {'coingecko': .., 'coinmarketcap': .., 'binance': ..} in order
Sources == <<"coingecko", "coinmarketcap", "binance">>
SourceNames == {Sources[i] : i \in 1..Len(Sources)}
\* CRYPTO_API_SOURCE: one of the sources, or a name get_btc_prices does not know
PreferredSources == SourceNames \cup {"kraken"}

\* a lookup that settles for the fallback entry of the first source
btc_key_fallback(preferred_source) == "btc_prices_" \o "coingecko" \o "_fallback"

\* cache_key = f"btc_prices_{preferred_source}"
btc_key(preferred_source) == "btc_prices_" \o preferred_source
\* fallback_cache_key = f"btc_prices_{source_name}_fallback"
btc_fallback_key(source_name) == "btc_prices_" \o source_name \o "_fallback"

\* a fallback result stored with the full resolved TTL
fallback_ttl_full(ttl) == ttl

\* ttl = cache_service.get_ttl_for_screen(screen_type) // 2
fallback_ttl(ttl) == ttl \div 2

\* result = sources[preferred_source]() if preferred_source in sources
preferred_result(preferred_source, results) ==
    IF preferred_source \in SourceNames THEN results[preferred_source] ELSE None

\* the fallback loop: positions of the sources with source_name !=
\* preferred_source that return a result, in dict order
fallback_hits(preferred_source, results) ==
    {i \in 1..Len(Sources) : /\ Sources[i] # preferred_source
                             /\ results[Sources[i]] # None}

\* ... the position the loop returns at, 0 when it runs to its end
fallback_index(preferred_source, results) ==
    LET hits == fallback_hits(preferred_source, results)
    IN  IF hits = {} THEN 0
        ELSE CHOOSE i \in hits : \A j \in hits : i <= j

\* get_btc_prices on a miss: the source whose result it returns, None if all fail
btc_source(preferred_source, results) ==
    IF preferred_result(preferred_source, results) # None THEN preferred_source
    ELSE LET index == fallback_index(preferred_source, results)
         IN  IF index # 0 THEN Sources[index] ELSE None

\* get_btc_prices on a miss: the sources it called, in order
btc_tried(preferred_source, results) ==
    LET first == IF preferred_source \in SourceNames
                 THEN <<preferred_source>> ELSE <<>>
        index == fallback_index(preferred_source, results)
        last == IF index = 0 THEN Len(Sources) ELSE index
        IsOther(s) == s # preferred_source
    IN  IF preferred_result(preferred_source, results) # None THEN first
        ELSE first \o SelectSeq(SubSeq(Sources, 1, last), IsOther)

\* CryptoService.get_btc_prices: the value returned, the store the call
\* leaves, the upstream sources it contacted in order and the source of the
\* result
get_btc_prices(d, preferred_source, results, ttl, dflt, current_time) ==
    LET cache_key == btc_key(preferred_source)
        cached_data == cached(d, cache_key, current_time)
        looked == get_cache(d, cache_key, current_time)
        source == btc_source(preferred_source, results)
    IN  IF cached_data # None
        THEN [ret |-> mark_cached(cached_data), cache |-> hit_cache(looked, cache_key),
              contacted |-> <<>>, source |-> None]
        ELSE IF source = None
        THEN [ret |-> None, cache |-> looked,
              contacted |-> btc_tried(preferred_source, results),
              source |-> None]
        ELSE IF source = preferred_source
        THEN [ret |-> results[source],
              cache |-> set_cache(looked, cache_key, results[source], ttl, dflt,
                                  current_time),
              contacted |-> btc_tried(preferred_source, results),
              source |-> source]
        ELSE [ret |-> results[source],
              cache |-> set_cache(looked, btc_fallback_key(source),
                                  results[source], fallback_ttl(ttl), dflt,
                                  current_time),
              contacted |-> btc_tried(preferred_source, results),
              source |-> source]

Fetched(call, arg, upstream, ret, ttl, contacted, source) ==
    [call |-> call, arg |-> arg, upstream |-> upstream, ret |-> ret,
     ttl |-> ttl, contacted |-> contacted, source |-> source]
NoFetch == Fetched("-", "-", <<>>, None, 0, <<>>, None)

\* the latest store of provider p: what the call wrote under p's key, if it
\* wrote
Stored(was, d, dnew, key) ==
    IF key \in DOMAIN dnew /\ (key \notin DOMAIN d \/ dnew[key] # d[key])
    THEN [live |-> TRUE, data |-> dnew[key].data,
          timestamp |-> dnew[key].timestamp, ttl |-> dnew[key].ttl]
    ELSE was

\* the providers of a process that has not called one yet
ProviderInit ==
    /\ lastFetch = NoFetch
    /\ stored = [p \in CachingProviders |-> NoSet]

\* CacheService.get_ttl_for_screen(screen_type)
GetTtlForScreen(screen_type) ==
    /\ lastFetch' = Fetched("get_ttl_for_screen", screen_type, <<>>, None,
                            get_ttl_for_screen(screen_cache_config, default_ttl,
                                               screen_type),
                            <<>>, None)
    /\ UNCHANGED <<configVars, stored>>
    /\ UNCHANGED <<cacheVars, displayVars, threadVars, twinVars, appVars>>

\* a caching provider's call with the upstream ready to answer with outcome
ProviderCall(p, outcome) ==
    LET key == provider_key(p)
        fresh == fetch(provider_source(p), outcome, now)
        ttl == get_ttl_for_screen(screen_cache_config, default_ttl, p)
    IN  /\ p \in screen_order
        /\ _cache' = provider_cache(_cache, key, now, fresh, ttl, default_ttl)
        /\ lastFetch' = Fetched(p, key, outcome,
                                provider_ret(_cache, key, now, fresh), 0,
                                provider_contacted(_cache, key, now,
                                                   provider_source(p)),
                                None)
        /\ stored' = [stored EXCEPT ![p] = Stored(@, _cache, _cache', key)]
        /\ UNCHANGED <<default_ttl, now, lastOp, lastSet, swept>>
        /\ UNCHANGED configVars
        /\ UNCHANGED <<displayVars, threadVars, twinVars, appVars>>

\* WeatherService.get_weather_data()
GetWeatherData(outcome) ==
    IF configured
    THEN ProviderCall("weather", outcome)
    ELSE /\ "weather" \in screen_order
         /\ lastFetch' = Fetched("weather", WeatherKey, outcome, None, 0, <<>>,
                                 None)
         /\ UNCHANGED <<configVars, stored>>
         /\ UNCHANGED <<cacheVars, displayVars, threadVars, twinVars, appVars>>

\* CurrencyService.get_usd_brl_eur_brl_rates()
GetUsdBrlEurBrlRates(outcome) == ProviderCall("exchange_rates", outcome)

\* what the bitcoin sources have ready, in one word: "ok" when some source has
\* a usable response, else the way they fail
Summary(upstream) ==
    IF \E s \in SourceNames : upstream[s] = "ok" THEN "ok"
    ELSE upstream[Sources[1]]

\* CryptoService.get_btc_prices(preferred_source=crypto_source) with each
\* source ready to answer with upstream[source]
GetBtcPrices(upstream) ==
    LET results == [s \in SourceNames |-> fetch(s, upstream[s], now)]
        ttl == get_ttl_for_screen(screen_cache_config, default_ttl,
                                  "bitcoin_prices")
    IN  /\ "bitcoin_prices" \in screen_order
        /\ \E call \in {get_btc_prices(_cache, crypto_source, results, ttl,
                                        default_ttl, now)} :
             /\ _cache' = call.cache
             /\ lastFetch' = Fetched("bitcoin_prices", btc_key(crypto_source),
                                     Summary(upstream), call.ret, 0,
                                     call.contacted, call.source)
        /\ UNCHANGED <<default_ttl, now, lastOp, lastSet, swept>>
        /\ UNCHANGED <<configVars, stored>>
        /\ UNCHANGED <<displayVars, threadVars, twinVars, appVars>>

\* the upstreams of the bitcoin sources: those in ok have a usable response
\* ready, the others all fail in the way failure
Upstream(ok, failure) == [s \in SourceNames |-> IF s \in ok THEN "ok" ELSE failure]

ProviderNext ==
    \/ Tick
    \/ \E screen_type \in Categories : GetTtlForScreen(screen_type)
    \/ \E outcome \in Outcomes : GetWeatherData(outcome)
    \/ \E outcome \in Outcomes : GetUsdBrlEurBrlRates(outcome)
    \/ \E ok \in SUBSET SourceNames, failure \in Outcomes \ {"ok"} :
         GetBtcPrices(Upstream(ok, failure))

(***************************************************************************)
(* Construction of the CacheService from the environment                   *)
(* (CacheService.__init__, _parse_screen_cache_config)                     *)
(***************************************************************************)
\* the most items CACHE_PER_SCREEN holds
MaxItems == 3

\* int(os.getenv('CACHE_DEFAULT_TTL', '60'))
DefaultTtlUnset == 60

\* the integers the environment spells
Spelled == (-1..MaxTtl) \cup {DefaultTtlUnset}
\* strings int() accepts, and one it does not
IntStrs == {ToString(n) : n \in Spelled}
TtlStrs == IntStrs \cup {"abc"}

\* int(s): the integer s spells; raises ValueError if it spells none
int_raises(s) == s \notin IntStrs
int(s) == CHOOSE n \in Spelled : ToString(n) = s

\* one item of CACHE_PER_SCREEN.split(','): with a ':' it splits into a
\* screen name and a TTL string
Item(colon, screen_name, ttl_str) ==
    [colon |-> colon, screen_name |-> screen_name, ttl_str |-> ttl_str]
Items ==
    {Item(TRUE, n, t) : n \in {"weather", "news"}, t \in TtlStrs \ {"60"}}
      \cup {Item(FALSE, "weather", "")}
ItemLists == UNION {[1..n -> Items] : n \in 0..MaxItems}

\* os.getenv(name, default) with the variable unset
Unset == "unset"
getenv(value, default) == IF value = Unset THEN default ELSE value

Environ(ttl, per_screen, order) ==
    [CACHE_DEFAULT_TTL |-> ttl, CACHE_PER_SCREEN |-> per_screen,
     SCREEN_ORDER |-> order]
\* SCREEN_ORDER unset: a list no split(',') yields
UnsetOrder == <<Unset>>
NoEnviron == Environ(Unset, <<>>, UnsetOrder)
\* the default TTL is unset, or set to anything, with CACHE_PER_SCREEN unset;
\* or it is unset or zero with any CACHE_PER_SCREEN
Environs ==
    {Environ(t, <<>>, UnsetOrder) : t \in {Unset} \cup (TtlStrs \ {"60"})}
      \cup {Environ(t, l, UnsetOrder) : t \in {Unset, "0"}, l \in ItemLists}

\* config[screen_name.strip()] = int(ttl_str.strip())
config_put(config, screen_name, ttl) ==
    [k \in DOMAIN config \cup {screen_name} |->
        IF k = screen_name THEN ttl ELSE config[k]]

\* the loop of _parse_screen_cache_config from item i on: an item without
\* ':' is passed over; the first ValueError leaves the loop, which is inside
\* the try, and the table built so far is returned
RECURSIVE parse_items(_, _, _)
parse_items(items, i, config) ==
    IF i > Len(items) THEN config
    ELSE IF ~items[i].colon THEN parse_items(items, i + 1, config)
    ELSE IF int_raises(items[i].ttl_str) THEN config
    ELSE parse_items(items, i + 1,
                     config_put(config, items[i].screen_name,
                                int(items[i].ttl_str)))

\* CacheService._parse_screen_cache_config
_parse_screen_cache_config(cache_per_screen) ==
    IF cache_per_screen = <<>> THEN [k \in {} |-> 0]
    ELSE parse_items(cache_per_screen, 1, [k \in {} |-> 0])

\* CacheService.__init__: int() of CACHE_DEFAULT_TTL raises out of the
\* constructor, the parse of CACHE_PER_SCREEN never does
CacheServiceInit ==
    /\ phase = "env"
    /\ IF int_raises(getenv(environ.CACHE_DEFAULT_TTL, "60"))
       THEN /\ phase' = "failed"
            /\ UNCHANGED <<default_ttl, screen_cache_config>>
       ELSE /\ phase' = "ready"
            /\ default_ttl' = int(getenv(environ.CACHE_DEFAULT_TTL, "60"))
            /\ screen_cache_config' =
                   _parse_screen_cache_config(environ.CACHE_PER_SCREEN)
    /\ UNCHANGED <<_cache, now, lastOp, lastSet, swept>>
    /\ UNCHANGED <<screen_order, configured, crypto_source, lastFetch, stored>>
    /\ UNCHANGED <<displayVars, threadVars, twinVars>>
    /\ UNCHANGED <<environ, screens, current_screen, next_calls, run_pc,
                   screen_data, iteration_count, cleanup_calls, cleanup_epd>>

\* cache_service.get_ttl_for_screen(screen_type) of the constructed service
ResolveTtl(screen_type) ==
    /\ phase = "ready"
    /\ GetTtlForScreen(screen_type)

StartupNext ==
    \/ CacheServiceInit
    \/ \E screen_type \in Categories : ResolveTtl(screen_type)

(***************************************************************************)
(* DisplayConfig (config/display_config.py) and the main loop              *)
(* CurrencyTicker.run (main.py)                                            *)
(***************************************************************************)
\* the most ids SCREEN_ORDER names
MaxOrder == 2
\* the most iterations of the main loop followed
MaxIterations == 10
\* if self._iteration_count % 10 == 0
SweepPeriod == 10

\* self.available_screens, in the order of the dict
AvailableScreens == <<"exchange_rates", "bitcoin_prices", "weather", "clock">>
AvailableIds == {AvailableScreens[i] : i \in 1..Len(AvailableScreens)}
\* os.getenv('SCREEN_ORDER', 'bitcoin_prices,exchange_rates,clock')
DefaultScreenOrder == <<"bitcoin_prices", "exchange_rates", "clock">>
\* values of SCREEN_ORDER: unset, or a list of ids, one of them unknown
ScreenOrderEnvs ==
    {UnsetOrder}
      \cup UNION {[1..n -> {"weather", "clock", "bogus"}] : n \in 0..MaxOrder}

\* DisplayConfig.__init__: the screens named in SCREEN_ORDER that exist, in
\* its order; all available screens if there is none
screens_of(order) ==
    LET ordered_screen_ids ==
            IF order = UnsetOrder THEN DefaultScreenOrder ELSE order
        known(screen_id) == screen_id \in AvailableIds
        valid == SelectSeq(ordered_screen_ids, known)
    IN  IF valid = <<>> THEN AvailableScreens ELSE valid

\* DisplayConfig.__init__
DisplayConfigInit ==
    /\ screens = screens_of(environ.SCREEN_ORDER)
    /\ current_screen = 0
    /\ next_calls = 0

\* a next_screen() that stays on the screen
next_screen_stay(current, n) == current

\* next_screen() without the modulo
next_screen_unwrapped(current, n) == current + 1

\* self.current_screen = (self.current_screen + 1) % len(self.screens)
next_screen(current, n) == (current + 1) % n

\* the screen_data of a screen whose provider returned nothing
NoData == ScreenData("None", 1, 1, "imgA")

\* DisplayConfig.get_current_screen_data(): None if there are no screens or
\* the screen's data_func returned nothing; else the data with
\* screen_number = current_screen + 1 and total_screens = len(screens)
get_current_screen_data(scr, current, present, image) ==
    IF scr = <<>> THEN NoData
    ELSE IF present THEN ScreenData("data", current + 1, Len(scr), image)
    ELSE NoData

\* cleanup() giving up when clear_display fails
cleanup_ops_abort(simulation, clear_failed_at) ==
    IF simulation THEN <<>>
    ELSE IF clear_failed_at = 0 THEN <<"init", "Clear", "sleep">>
    ELSE SubSeq(<<"init", "Clear">>, 1, clear_failed_at)

\* DisplayService.cleanup(): clear_display() then sleep_display(), each
\* catching the failure of its Display Capability calls; the calls attempted
\* when the clear_failed_at-th call of clear_display fails (0: none does)
cleanup_ops(simulation, clear_failed_at) ==
    IF simulation THEN <<>>
    ELSE IF clear_failed_at = 0 THEN <<"init", "Clear", "sleep">>
    ELSE SubSeq(<<"init", "Clear">>, 1, clear_failed_at) \o <<"sleep">>

\* a ticker that is not running
RunIdle ==
    /\ run_pc = "idle"
    /\ screen_data = NoData
    /\ iteration_count = 0
    /\ cleanup_calls = 0
    /\ cleanup_epd = <<>>

\* the statements of the try block at which the interrupt can arrive
LoopPoints == {"init", "fetch", "display", "next", "sweep", "sleep"}

\* self.display_service.initialize_display()
RunInitializeDisplay(failed_at) ==
    /\ run_pc = "init"
    /\ initialize_display(failed_at)
    /\ run_pc' = IF failed_at = 0 THEN "fetch" ELSE "error"
    /\ UNCHANGED <<environ, phase, screens, current_screen, next_calls,
                   screen_data, iteration_count, cleanup_calls, cleanup_epd>>
    /\ UNCHANGED <<cacheVars, providerVars, threadVars, twinVars>>

\* screen_data = self.display_config.get_current_screen_data(), the
\* screen's provider returning data or nothing
RunFetch(present, image) ==
    /\ run_pc = "fetch"
    /\ iteration_count < MaxIterations
    /\ screen_data' = get_current_screen_data(screens, current_screen, present,
                                              image)
    /\ run_pc' = "display"
    /\ UNCHANGED <<environ, phase, screens, current_screen, next_calls,
                   iteration_count, cleanup_calls, cleanup_epd>>
    /\ UNCHANGED <<cacheVars, displayVars, providerVars, threadVars, twinVars>>

\* self.display_service.display_screen_with_smart_refresh(screen_data)
RunDisplay(failed_at) ==
    /\ run_pc = "display"
    /\ \/ failed_at = 0 /\ skip_frame(screen_data)
       \/ failed_at = 0 /\ simulated_frame(screen_data)
       \/ hardware_frame(screen_data, failed_at)
    /\ run_pc' = IF lastCall'.raised THEN "error" ELSE "next"
    /\ UNCHANGED <<environ, phase, screens, current_screen, next_calls,
                   screen_data, iteration_count, cleanup_calls, cleanup_epd>>
    /\ UNCHANGED <<cacheVars, providerVars, threadVars, twinVars>>

\* self.display_config.next_screen()
RunNextScreen ==
    /\ run_pc = "next"
    /\ current_screen' = next_screen(current_screen, Len(screens))
    /\ next_calls' = next_calls + 1
    /\ run_pc' = "sweep"
    /\ UNCHANGED <<environ, phase, screens, screen_data, iteration_count,
                   cleanup_calls, cleanup_epd>>
    /\ UNCHANGED <<cacheVars, displayVars, providerVars, threadVars, twinVars>>

\* a loop that sweeps on every iteration
sweep_due_always(count) == TRUE

\* if self._iteration_count % 10 == 0
sweep_due(count) == count % SweepPeriod = 0

\* self._iteration_count += 1 and, every 10th iteration,
\* cache_service.cleanup_expired()
RunSweep ==
    /\ run_pc = "sweep"
    /\ iteration_count' = iteration_count + 1
    /\ IF sweep_due(iteration_count')
       THEN /\ _cache' = cleanup_cache(_cache, now)
            /\ lastOp' = Observed("cleanup", "-", None,
                                  cleanup_ret(_cache, now), NoStats)
            /\ swept' = IF swept = 0 THEN 1 ELSE 2
       ELSE UNCHANGED <<_cache, lastOp, swept>>
    /\ run_pc' = "sleep"
    /\ UNCHANGED <<default_ttl, now, lastSet>>
    /\ UNCHANGED <<environ, phase, screens, current_screen, next_calls,
                   screen_data, cleanup_calls, cleanup_epd>>
    /\ UNCHANGED <<displayVars, providerVars, threadVars, twinVars>>

\* time.sleep(self.refresh_interval)
RunSleep ==
    /\ run_pc = "sleep"
    /\ run_pc' = "fetch"
    /\ UNCHANGED <<environ, phase, screens, current_screen, next_calls,
                   screen_data, iteration_count, cleanup_calls, cleanup_epd>>
    /\ UNCHANGED <<cacheVars, displayVars, providerVars, threadVars, twinVars>>

\* KeyboardInterrupt raised in the statement the loop is at
Interrupt ==
    /\ run_pc \in LoopPoints
    /\ run_pc' = "interrupted"
    /\ UNCHANGED <<environ, phase, screens, current_screen, next_calls,
                   screen_data, iteration_count, cleanup_calls, cleanup_epd>>
    /\ UNCHANGED <<cacheVars, displayVars, providerVars, threadVars, twinVars>>

\* except KeyboardInterrupt / except Exception: self._cleanup(), which calls
\* display_service.cleanup() and catches what it raises; run returns
Cleanup(clear_failed_at) ==
    /\ run_pc \in {"interrupted", "error"}
    /\ simulation_mode => clear_failed_at = 0
    /\ cleanup_calls' = cleanup_calls + 1
    /\ cleanup_epd' = cleanup_ops(simulation_mode, clear_failed_at)
    /\ run_pc' = "returned"
    /\ UNCHANGED <<environ, phase, screens, current_screen, next_calls,
                   screen_data, iteration_count>>
    /\ UNCHANGED <<cacheVars, displayVars, providerVars, threadVars, twinVars>>

RunNext ==
    \/ \E failed_at \in 0..2 : RunInitializeDisplay(failed_at)
    \/ \E present \in BOOLEAN, image \in Images : RunFetch(present, image)
    \/ \E failed_at \in 0..3 : RunDisplay(failed_at)
    \/ RunNextScreen
    \/ RunSweep
    \/ RunSleep
    \/ Interrupt
    \/ \E clear_failed_at \in 0..2 : Cleanup(clear_failed_at)

\* the statements of run() while no Display Capability call fails and no
\* interrupt arrives; what the frames show has no part in the loop's control
\* flow, so every frame is rendered from the same data
LoopNext ==
    \/ RunInitializeDisplay(0)
    \/ \E present \in BOOLEAN : RunFetch(present, "imgA")
    \/ RunDisplay(0)
    \/ RunNextScreen
    \/ RunSweep
    \/ RunSleep

(***************************************************************************)
(* Concurrent callers of one CacheService.  The service takes no lock, so  *)
(* callers interleave between the dict operations of each method.          *)
(***************************************************************************)
Threads == {"t1", "t2"}

\* a caller's record: the call and its arguments, the position in its code,
\* the locals cache_entry, expired_keys and the dict iterator (the keys it
\* has still to yield and the dict size it was created at), the entries the
\* call deleted from the store, and how the call ended
Caller(op, pc, key, data, ttl) ==
    [op |-> op, pc |-> pc, key |-> key, data |-> data, ttl |-> ttl,
     cache_entry |-> Entry(None, 0, 0), expired_keys |-> <<>>,
     todo |-> {}, size |-> 0, removed |-> {},
     status |-> "running", ret |-> None, n |-> 0, error |-> None]
Idle == [Caller("-", "-", "-", None, 0) EXCEPT !.status = "idle"]

\* return value / len(expired_keys)
Returned(c, ret, n) ==
    [c EXCEPT !.pc = "-", !.status = "returned", !.ret = ret, !.n = n]
\* an exception leaves the method
Raised(c, error) == [c EXCEPT !.pc = "-", !.status = "raised", !.error = error]
Finished(c) == c.status \in {"returned", "raised"}

\* the calls a caller may make
Calls ==
    {Caller("get", "get_check", key, None, 0) : key \in Keys}
    \cup {Caller("set", "set_store", key, "v2", ttl) :
            key \in Keys, ttl \in {NoTtl, 0}}
    \cup {Caller("invalidate", "invalidate_check", key, None, 0) : key \in Keys}
    \cup {Caller("cleanup", "cleanup_iter", "-", None, 0)}

\* a caller enters a method
Start(t, call) ==
    /\ threads[t].status = "idle"
    /\ threads' = [threads EXCEPT ![t] = call]
    /\ UNCHANGED <<cacheVars, cache0, twinVars, displayVars, providerVars, appVars>>

\* get(): if key not in self._cache: return None
GetCheck(t) ==
    /\ threads[t].pc = "get_check"
    /\ threads' = [threads EXCEPT ![t] =
                     IF threads[t].key \notin DOMAIN _cache
                     THEN Returned(@, None, 0)
                     ELSE [@ EXCEPT !.pc = "get_read"]]
    /\ UNCHANGED <<cacheVars, cache0, twinVars, displayVars, providerVars, appVars>>

\* get(): cache_entry = self._cache[key], the expiry test and the return of a
\* valid entry's data
GetRead(t) ==
    /\ threads[t].pc = "get_read"
    /\ threads' = [threads EXCEPT ![t] =
                     IF threads[t].key \notin DOMAIN _cache
                     THEN Raised(@, "KeyError")
                     ELSE IF get_expired(_cache[threads[t].key], now)
                     THEN [@ EXCEPT !.pc = "get_del",
                                    !.cache_entry = _cache[threads[t].key]]
                     ELSE Returned([@ EXCEPT !.cache_entry = _cache[threads[t].key]],
                                   _cache[threads[t].key].data, 0)]
    /\ UNCHANGED <<cacheVars, cache0, twinVars, displayVars, providerVars, appVars>>

\* get(): del self._cache[key]; return None
GetDel(t) ==
    /\ threads[t].pc = "get_del"
    /\ IF threads[t].key \in DOMAIN _cache
       THEN /\ _cache' = DictDel(_cache, threads[t].key)
            /\ threads' = [threads EXCEPT ![t] =
                             Returned([@ EXCEPT !.removed =
                                         {[key |-> threads[t].key,
                                           entry |-> _cache[threads[t].key]]}],
                                      None, 0)]
       ELSE /\ _cache' = _cache
            /\ threads' = [threads EXCEPT ![t] = Raised(@, "KeyError")]
    /\ UNCHANGED <<default_ttl, now, lastOp, lastSet, swept>>
    /\ UNCHANGED <<cache0, twinVars, displayVars, providerVars, appVars>>

\* set(): self._cache[key] = {...}
SetStore(t) ==
    /\ threads[t].pc = "set_store"
    /\ _cache' = set_cache(_cache, threads[t].key, threads[t].data,
                           threads[t].ttl, default_ttl, now)
    /\ threads' = [threads EXCEPT ![t] = Returned(@, None, 0)]
    /\ UNCHANGED <<default_ttl, now, lastOp, lastSet, swept>>
    /\ UNCHANGED <<cache0, twinVars, displayVars, providerVars, appVars>>

\* invalidate(): if key in self._cache
InvalidateCheck(t) ==
    /\ threads[t].pc = "invalidate_check"
    /\ threads' = [threads EXCEPT ![t] =
                     IF threads[t].key \in DOMAIN _cache
                     THEN [@ EXCEPT !.pc = "invalidate_del"]
                     ELSE Returned(@, None, 0)]
    /\ UNCHANGED <<cacheVars, cache0, twinVars, displayVars, providerVars, appVars>>

\* invalidate(): del self._cache[key]
InvalidateDel(t) ==
    /\ threads[t].pc = "invalidate_del"
    /\ IF threads[t].key \in DOMAIN _cache
       THEN /\ _cache' = DictDel(_cache, threads[t].key)
            /\ threads' = [threads EXCEPT ![t] =
                             Returned([@ EXCEPT !.removed =
                                         {[key |-> threads[t].key,
                                           entry |-> _cache[threads[t].key]]}],
                                      None, 0)]
       ELSE /\ _cache' = _cache
            /\ threads' = [threads EXCEPT ![t] = Raised(@, "KeyError")]
    /\ UNCHANGED <<default_ttl, now, lastOp, lastSet, swept>>
    /\ UNCHANGED <<cache0, twinVars, displayVars, providerVars, appVars>>

\* cleanup_expired(): the for statement creates the iterator of
\* self._cache.items()
CleanupIter(t) ==
    /\ threads[t].pc = "cleanup_iter"
    /\ threads' = [threads EXCEPT ![t] =
                     [@ EXCEPT !.pc = "cleanup_next",
                               !.todo = DOMAIN _cache,
                               !.size = Cardinality(DOMAIN _cache)]]
    /\ UNCHANGED <<cacheVars, cache0, twinVars, displayVars, providerVars, appVars>>

\* cleanup_expired(): the scan loop is over; return 0 straight away when
\* expired_keys is empty
scan_done(c) ==
    IF c.expired_keys = <<>> THEN Returned(c, None, 0)
    ELSE [c EXCEPT !.pc = "cleanup_del", !.n = Len(c.expired_keys)]

\* cleanup_expired(): one turn of the scan loop: the iterator raises if the
\* dict changed size, else it ends or yields the next item, which is tested
\* and appended to expired_keys if expired
CleanupNext(t) ==
    /\ threads[t].pc = "cleanup_next"
    /\ IF Cardinality(DOMAIN _cache) # threads[t].size
       THEN threads' = [threads EXCEPT ![t] = Raised(@, "RuntimeError")]
       ELSE IF threads[t].todo \cap DOMAIN _cache = {}
       THEN threads' = [threads EXCEPT ![t] = scan_done(@)]
       ELSE \E key \in threads[t].todo \cap DOMAIN _cache :
              threads' = [threads EXCEPT ![t] =
                            [@ EXCEPT !.todo = @ \ {key},
                                      !.expired_keys =
                                         IF cleanup_is_expired(_cache[key], now)
                                         THEN Append(@, key) ELSE @]]
    /\ UNCHANGED <<cacheVars, cache0, twinVars, displayVars, providerVars, appVars>>

\* cleanup_expired(): one turn of the delete loop, del self._cache[key], and
\* return len(expired_keys) after the last
CleanupDel(t) ==
    /\ threads[t].pc = "cleanup_del"
    /\ LET key == Head(threads[t].expired_keys)
           rest == Tail(threads[t].expired_keys)
       IN  IF key \in DOMAIN _cache
           THEN /\ _cache' = DictDel(_cache, key)
                /\ threads' = [threads EXCEPT ![t] =
                                 LET c == [@ EXCEPT !.expired_keys = rest,
                                                    !.removed = @ \cup
                                                       {[key |-> key,
                                                         entry |-> _cache[key]]}]
                                 IN  IF rest = <<>> THEN Returned(c, None, c.n)
                                     ELSE c]
           ELSE /\ _cache' = _cache
                /\ threads' = [threads EXCEPT ![t] = Raised(@, "KeyError")]
    /\ UNCHANGED <<default_ttl, now, lastOp, lastSet, swept>>
    /\ UNCHANGED <<cache0, twinVars, displayVars, providerVars, appVars>>

ThreadNext ==
    \E t \in Threads :
        \/ \E call \in Calls : Start(t, call)
        \/ GetCheck(t)
        \/ GetRead(t)
        \/ GetDel(t)
        \/ SetStore(t)
        \/ InvalidateCheck(t)
        \/ InvalidateDel(t)
        \/ CleanupIter(t)
        \/ CleanupNext(t)
        \/ CleanupDel(t)

\* the entries a store holds when the callers arrive at clock reading
\* current_time: set at time 0 and long expired, or set just now
StoredEntries(current_time) ==
    {Entry("v1", timestamp, ttl) : timestamp \in {0, current_time}, ttl \in TtlInputs}
Stores(current_time) ==
    UNION {[S -> StoredEntries(current_time)] : S \in SUBSET Keys}

\* a cache in use, at clock reading MaxTime, with callers about to call; the
\* calls overlap within one reading of the clock
InitThreads ==
    /\ _cache \in Stores(MaxTime)
    /\ cache0 = _cache
    /\ default_ttl = MaxTtl
    /\ now = MaxTime
    /\ lastOp = Observed("init", "-", None, 0, NoStats)
    /\ lastSet = [k \in Keys |-> NoSet]
    /\ swept = 0
    /\ threads = [t \in Threads |-> Idle]

\* the cache of a process that has not used it yet, default TTL 60 s unset
CacheIdle ==
    /\ _cache = [k \in {} |-> Entry(None, 0, 0)]
    /\ default_ttl = MaxTtl
    /\ now = 0
    /\ lastOp = Observed("init", "-", None, 0, NoStats)
    /\ lastSet = [k \in Keys |-> NoSet]
    /\ swept = 0

\* a display service that has not shown a frame yet
DisplayIdle ==
    /\ DisplayInit
    /\ simulation_mode = TRUE
    /\ total_screens = MaxScreens

\* providers that have not been called, CACHE_PER_SCREEN and the weather API
\* key unset, CRYPTO_API_SOURCE at its default
ProviderIdle ==
    /\ ProviderInit
    /\ screen_cache_config = [c \in {} |-> 0]
    /\ screen_order = {}
    /\ configured = FALSE
    /\ crypto_source = "coingecko"

\* no concurrent callers
ThreadIdle ==
    /\ threads = [t \in Threads |-> Idle]
    /\ cache0 = [k \in {} |-> Entry(None, 0, 0)]

\* a process whose services are constructed, nothing set in the environment
AppIdle ==
    /\ environ = NoEnviron
    /\ phase = "ready"
    /\ DisplayConfigInit
    /\ RunIdle

InitCache == CacheInit /\ DisplayIdle /\ ProviderIdle /\ ThreadIdle /\ AppIdle

InitDisplay == DisplayInit /\ CacheIdle /\ ProviderIdle /\ ThreadIdle /\ AppIdle

\* SCREEN_ORDER values: one provider screen, or the two single-source ones
ScreenOrders == {{"weather"}, {"exchange_rates"}, {"bitcoin_prices"},
                 {"weather", "exchange_rates"}}

\* providers as configured by the environment: the screens in SCREEN_ORDER,
\* CACHE_PER_SCREEN overrides for some of them, the weather API key set or
\* not (set where weather shares the cache with the exchange rates),
\* CRYPTO_API_SOURCE; CACHE_DEFAULT_TTL varies where one single-source
\* screen runs alone, elsewhere the TTLs vary through the overrides
InitProviders ==
    /\ CacheInit /\ DisplayIdle /\ ThreadIdle /\ AppIdle
    /\ ProviderInit
    /\ screen_order \in ScreenOrders
    /\ screen_order \notin {{"weather"}, {"exchange_rates"}}
         => default_ttl = MaxTtl
    /\ screen_cache_config \in Tables(screen_order)
    /\ configured \in (IF screen_order = {"weather"} THEN BOOLEAN
                       ELSE {"weather" \in screen_order})
    /\ crypto_source \in (IF "bitcoin_prices" \in screen_order
                          THEN PreferredSources ELSE {"coingecko"})

InitCallers == InitThreads /\ DisplayIdle /\ ProviderIdle /\ AppIdle

\* a process about to construct its cache service, with some environment
InitStartup ==
    /\ environ \in Environs
    /\ phase = "env"
    /\ _cache = [k \in {} |-> Entry(None, 0, 0)]
    /\ default_ttl = NoTtl
    /\ now = 0
    /\ lastOp = Observed("init", "-", None, 0, NoStats)
    /\ lastSet = [k \in Keys |-> NoSet]
    /\ swept = 0
    /\ DisplayIdle /\ ProviderIdle /\ ThreadIdle
    /\ DisplayConfigInit
    /\ RunIdle

\* a constructed CurrencyTicker about to run, with some SCREEN_ORDER, on the
\* hardware or in simulation mode
InitApp ==
    /\ environ \in {Environ(Unset, <<>>, order) : order \in ScreenOrderEnvs}
    /\ phase = "ready"
    /\ DisplayConfigInit
    /\ run_pc = "init"
    /\ screen_data = NoData
    /\ iteration_count = 0
    /\ cleanup_calls = 0
    /\ cleanup_epd = <<>>
    /\ simulation_mode \in BOOLEAN
    /\ refresh_count = 0
    /\ partial_refresh_initialized = FALSE
    /\ last_screen_number = NoScreen
    /\ base_image = None
    /\ current_cycle = 0
    /\ total_screens = Len(screens)
    /\ lastCall = Call("construct", NoData, "None", <<>>, 0, FALSE)
    /\ history = <<>>
    /\ fast_refresh_initialized = "unset"
    /\ panel = "unknown"
    /\ twin = Constructed
    /\ CacheIdle /\ ProviderIdle /\ ThreadIdle

\* the cache service under every sequence of calls and clock advances
SpecCache == InitCache /\ [][CacheNext]_vars

\* the display service under every sequence of calls
SpecDisplay == InitDisplay /\ [][DisplayNext]_vars

\* a display service on the hardware
InitHardware ==
    /\ InitDisplay
    /\ ~simulation_mode

\* the display service on a Display Capability that never fails, under every
\* sequence of calls
SpecHardware == InitHardware /\ [][HardwareNext]_vars

\* a display service about to be driven through display_image
InitImage == InitDisplay

\* a display service on the hardware next to one in simulation mode
InitTwin ==
    /\ InitDisplay
    /\ ~simulation_mode

\* the two instances under every sequence of frames, present or absent
SpecTwin == InitTwin /\ [][TwinNext]_vars

\* the display service under every sequence of initialize_display and
\* display_image calls
SpecImage == InitImage /\ [][ImageNext]_vars

\* the construction of the cache service under every environment, and the
\* TTLs it then resolves
SpecStartup == InitStartup /\ [][StartupNext]_vars

\* CurrencyTicker.run() under every SCREEN_ORDER, provider results, display
\* failures and arrival of the shutdown interrupt
SpecApp == InitApp /\ [][RunNext]_vars

\* CurrencyTicker.run() with no display failure and no interrupt: the one
\* thread of the program goes on to its next statement, every call it makes
\* returning
SpecLoop == InitApp /\ [][LoopNext]_vars /\ WF_vars(LoopNext)

\* the data providers under every sequence of calls, upstream outcomes and
\* clock advances
SpecProviders == InitProviders /\ [][ProviderNext]_vars

\* two callers making one call each on a shared CacheService, under every
\* interleaving of the calls' dict operations
SpecThreads == InitCallers /\ [][ThreadNext]_vars

(***************************************************************************)
(* Properties of the cache service (checked under SpecCache)               *)
(***************************************************************************)
\* C1: for ttl > 0, set(k, v, ttl) followed by get(k) at the same clock
\* reading returns v; once the clock is more than ttl past that set, with no
\* set(k) in between and whatever gets happened meanwhile, get(k) returns
\* None and k no longer counts in get_cache_stats()['total_entries'].
C1_SetGetExpire ==
    (lastOp.op = "get" /\ lastSet[lastOp.key].live /\ lastSet[lastOp.key].ttl > 0) =>
        LET k == lastOp.key
            s == lastSet[k]
        IN  /\ (now = s.timestamp => lastOp.ret = s.data)
            /\ (now - s.timestamp > s.ttl =>
                   /\ lastOp.ret = None
                   /\ k \notin DOMAIN _cache
                   /\ get_cache_stats(_cache, now).total_entries
                        = Cardinality((DOMAIN _cache) \ {k}))

\* C1 witness: a get(k) more than ttl after set(k, v, ttl), ttl > 0, answered
\* None while another key is still stored
C1_Witness ==
    /\ lastOp.op = "get"
    /\ lastSet[lastOp.key].live
    /\ lastSet[lastOp.key].ttl > 0
    /\ now - lastSet[lastOp.key].timestamp > lastSet[lastOp.key].ttl
    /\ lastOp.ret = None
    /\ DOMAIN _cache # {}

\* C9: set(k, v, ttl) leaves under k exactly {data: v, timestamp: now, ttl}
\* whatever was stored before, with the default TTL when ttl is omitted and
\* the given ttl (0 included) otherwise; a later get(k) within that ttl of
\* the set, with no invalidate/clear in between, returns v.
C9_SetOverwrites ==
    /\ lastOp.op = "set" =>
          /\ lastOp.key \in DOMAIN _cache
          /\ _cache[lastOp.key] =
                Entry(lastSet[lastOp.key].data, now,
                      IF lastSet[lastOp.key].ttl = NoTtl THEN default_ttl
                      ELSE lastSet[lastOp.key].ttl)
    /\ (lastOp.op = "get" /\ lastSet[lastOp.key].live) =>
          LET s == lastSet[lastOp.key]
              ttl == IF s.ttl = NoTtl THEN default_ttl ELSE s.ttl
          IN  now - s.timestamp <= ttl => lastOp.ret = s.data

\* C9 witness: set(k, v, 0) at a later clock reading, default TTL non-zero,
\* stored with ttl 0
C9_Witness ==
    /\ lastOp.op = "set"
    /\ lastSet[lastOp.key].ttl = 0
    /\ default_ttl > 0
    /\ now > 0
    /\ _cache[lastOp.key].ttl = 0
    /\ _cache[lastOp.key].timestamp = now

\* C10: cleanup_expired, at one clock reading, deletes exactly the entries
\* with now - timestamp > ttl, leaves the others as they were, and returns
\* the number of entries deleted.
C10_SweepExact ==
    [][lastOp'.op = "cleanup" =>
          /\ DOMAIN _cache' =
                {k \in DOMAIN _cache : ~(now - _cache[k].timestamp > _cache[k].ttl)}
          /\ \A k \in DOMAIN _cache' : _cache'[k] = _cache[k]
          /\ lastOp'.n = Cardinality(DOMAIN _cache) - Cardinality(DOMAIN _cache')
      ]_vars

\* C10 witness: a sweep that removed one entry and kept an entry aged
\* exactly its ttl
C10_Witness ==
    /\ lastOp.op = "cleanup"
    /\ lastOp.n = 1
    /\ \E k \in DOMAIN _cache : now - _cache[k].timestamp = _cache[k].ttl

\* C11: two cleanup_expired() calls in succession with no set() in between:
\* the second removes nothing, returns 0 and leaves the store as it was
C11_SweepIdempotent ==
    [][(swept >= 1 /\ lastOp'.op = "cleanup")
         => (lastOp'.n = 0 /\ _cache' = _cache)]_vars

\* C11 as the code has it: each cleanup_expired() reads the clock anew, so
\* the second removes nothing when no set() and no clock advance came between
C11_SweepIdempotentSameClock ==
    [][(lastOp.op = "cleanup" /\ lastOp'.op = "cleanup")
         => (lastOp'.n = 0 /\ _cache' = _cache)]_vars

\* a second sweep in a row has returned 0 over a store that still has entries
C11_Witness ==
    /\ swept = 2
    /\ lastOp.op = "cleanup"
    /\ lastOp.n = 0
    /\ DOMAIN _cache # {}

\* C12: get(), get_cache_stats() and cleanup_expired() classify every entry
\* by the one predicate now - timestamp <= ttl: get() returns exactly the
\* valid entries, the statistics count them as valid, the sweep keeps them,
\* and valid + expired = total
C12_OnePredicate ==
    LET stats == get_cache_stats(_cache, now)
        valid == {k \in DOMAIN _cache : now - _cache[k].timestamp <= _cache[k].ttl}
    IN  /\ \A k \in DOMAIN _cache :
              /\ (get_ret(_cache, k, now) = _cache[k].data) <=> (k \in valid)
              /\ (k \in DOMAIN get_cache(_cache, k, now)) <=> (k \in valid)
        /\ stats.valid_entries = Cardinality(valid)
        /\ stats.expired_entries = Cardinality(DOMAIN _cache \ valid)
        /\ stats.total_entries = stats.valid_entries + stats.expired_entries
        /\ DOMAIN cleanup_cache(_cache, now) = valid
        /\ cleanup_ret(_cache, now) = stats.expired_entries
        /\ lastOp.op = "stats" => lastOp.stats = stats

\* statistics were taken of a store holding an entry aged exactly its ttl
\* (counted valid) and an entry older than its ttl (counted expired)
C12_Witness ==
    /\ lastOp.op = "stats"
    /\ lastOp.stats.valid_entries = 1
    /\ lastOp.stats.expired_entries = 1
    /\ \E k \in DOMAIN _cache : now - _cache[k].timestamp = _cache[k].ttl

\* C25: clear() empties the store and returns the number of entries it
\* removed
C25_ClearReturnsCount ==
    [][lastOp'.op = "clear"
         => /\ DOMAIN _cache' = {}
            /\ lastOp'.n = Cardinality(DOMAIN _cache)]_vars

\* C26: get_cache_stats() leaves every entry, expired ones included, and the
\* configuration as they were, and reports the expired entries it leaves
C26_StatsNoSideEffect ==
    [][lastOp'.op = "stats"
         => /\ _cache' = _cache
            /\ default_ttl' = default_ttl
            /\ screen_cache_config' = screen_cache_config
            /\ lastOp'.stats.expired_entries =
                  Cardinality({k \in DOMAIN _cache' :
                                 now - _cache'[k].timestamp > _cache'[k].ttl})
            /\ lastOp'.stats.total_entries = Cardinality(DOMAIN _cache)]_vars

\* statistics were taken of a store with an expired entry, which is still
\* in the store
C26_Witness ==
    /\ lastOp.op = "stats"
    /\ lastOp.stats.expired_entries = 2
    /\ \A k \in Keys : k \in DOMAIN _cache /\ now - _cache[k].timestamp > _cache[k].ttl

\* C27: invalidate(k) removes the entry of k if there is one, leaves the
\* store as it is if there is none, leaves the entries of all other keys
\* alone, and returns
C27_InvalidateOnlyKey ==
    [][lastOp'.op = "invalidate"
         => /\ lastOp'.key \notin DOMAIN _cache'
            /\ DOMAIN _cache' = DOMAIN _cache \ {lastOp'.key}
            /\ \A k \in DOMAIN _cache' : _cache'[k] = _cache[k]
            /\ lastOp'.key \notin DOMAIN _cache => _cache' = _cache
            /\ lastOp'.ret = None]_vars

\* a key was invalidated and the entry of the other key is still there
C27_Witness ==
    /\ lastOp.op = "invalidate"
    /\ lastOp.key \notin DOMAIN _cache
    /\ DOMAIN _cache = Keys \ {lastOp.key}

(***************************************************************************)
(* Properties of the construction (checked under SpecStartup)              *)
(***************************************************************************)
\* item i of items is well formed: a name and a TTL string int() accepts
well_formed(item) == item.colon /\ item.ttl_str \in IntStrs
\* ... and no later well-formed item names the same screen
last_word(items, i) ==
    /\ well_formed(items[i])
    /\ \A j \in (i + 1)..Len(items) :
          well_formed(items[j]) => items[j].screen_name # items[i].screen_name

\* C23: whatever CACHE_PER_SCREEN holds, construction does not fail on it,
\* and every well-formed item is in the override table, wherever the
\* malformed items stand
C23_MalformedSkipped ==
    (phase # "env" /\ environ.CACHE_DEFAULT_TTL = Unset)
      => /\ phase = "ready"
         /\ \A i \in 1..Len(environ.CACHE_PER_SCREEN) :
               last_word(environ.CACHE_PER_SCREEN, i)
                 => LET item == environ.CACHE_PER_SCREEN[i]
                    IN  /\ item.screen_name \in DOMAIN screen_cache_config
                        /\ ToString(screen_cache_config[item.screen_name])
                              = item.ttl_str

\* C24: with a default TTL >= 0 and any overrides accepted at construction,
\* get_ttl_for_screen returns a positive integer for every category
C24_TtlPositive ==
    (/\ phase = "ready"
     /\ lastFetch.call = "get_ttl_for_screen"
     /\ default_ttl >= 0)
      => lastFetch.ttl > 0

(***************************************************************************)
(* Properties of the main loop and DisplayConfig (checked under SpecApp)   *)
(***************************************************************************)
\* C21: when run has returned, after an interrupt at any statement of the
\* loop or after an error, display cleanup was invoked exactly once, and it
\* was not invoked while the loop ran; on the hardware the cleanup ended by
\* attempting sleep, whether or not clearing failed
C21_CleanupOnce ==
    /\ run_pc = "returned"
         => /\ cleanup_calls = 1
            /\ ~simulation_mode
                 => /\ cleanup_epd # <<>>
                    /\ cleanup_epd[Len(cleanup_epd)] = "sleep"
    /\ run_pc # "returned" => cleanup_calls = 0

\* run returned after a frame failed on the hardware in the second
\* iteration; the cleanup failed to clear the display and still attempted
\* sleep
C21_Witness ==
    /\ run_pc = "returned"
    /\ ~simulation_mode
    /\ iteration_count = 1
    /\ lastCall.op = "display_screen_with_smart_refresh"
    /\ lastCall.raised
    /\ cleanup_calls = 1
    /\ cleanup_epd = <<"init", "sleep">>

\* C22: an iteration whose screen has no data renders a frame all the same
\* (a placeholder) and goes on to the next screen
C22_PlaceholderRendered ==
    [][(/\ run_pc = "display"
        /\ run_pc' # "interrupted"
        /\ not_screen_data(screen_data))
       => /\ lastCall'.action \in {"FullRepaint", "PartialRepaint", "Simulated"}
          /\ run_pc' = "next"]_vars

\* C30: the screen list is never empty, current_screen is an index into it
\* and equals the number of next_screen() calls modulo its length, and a
\* screen_data with data carries screen_number in 1..total_screens
C30_CyclicAdvance ==
    /\ screens # <<>>
    /\ current_screen \in 0..(Len(screens) - 1)
    /\ current_screen = next_calls % Len(screens)
    /\ ~not_screen_data(screen_data)
         => /\ screen_data.total_screens = Len(screens)
            /\ screen_data.screen_number \in 1..screen_data.total_screens

\* with two screens configured, the index is back at 0 after wrapping twice
\* and the last screen_data was that of screen 2 of 2
C30_Witness ==
    /\ Len(screens) = 2
    /\ next_calls = 4
    /\ current_screen = 0
    /\ screen_data.kind = "data"
    /\ screen_data.screen_number = 2

\* C33: the loop calls cleanup_expired in the iterations whose number is a
\* multiple of 10 and in no other, whether the frame was displayed or
\* skipped, in its own sequence after the display step and next_screen and
\* before the sleep (swept counts the sweeps, up to two)
C33_SweepEveryTenth ==
    /\ [](swept = IF iteration_count \div 10 >= 2 THEN 2
                  ELSE iteration_count \div 10)
    /\ [][swept' # swept
           => /\ run_pc = "sweep" /\ run_pc' = "sleep"
              /\ iteration_count' % 10 = 0
              /\ lastOp'.op = "cleanup"
              /\ lastCall.op = "display_screen_with_smart_refresh"]_vars

\* the tenth iteration swept although its frame was skipped
C33_Witness ==
    /\ swept = 1
    /\ iteration_count = 10
    /\ run_pc = "sleep"
    /\ lastOp.op = "cleanup"
    /\ lastCall.action = "Skipped"

\* C39: with no display failure and no interrupt, next_screen() is called
\* exactly once per iteration, whether the frame was displayed or skipped,
\* so the screen fetched and handed to the display step in iteration i is
\* the one at index i modulo the number of screens, and from every iteration
\* on every configured screen is handed to the display step again (within
\* the iterations and cycles explored).
C39_EveryScreenAttempted ==
    /\ [](run_pc \in {"fetch", "display", "next"}
            => /\ next_calls = iteration_count
               /\ current_screen = iteration_count % Len(screens))
    /\ [](run_pc \in {"sweep", "sleep"}
            => next_calls = (IF run_pc = "sweep" THEN iteration_count + 1
                            ELSE iteration_count))
    /\ [](run_pc = "next"
            => /\ lastCall.op = "display_screen_with_smart_refresh"
               /\ ~lastCall.raised
               /\ lastCall.kind = "data"
                    => lastCall.screen_number = current_screen + 1)
    /\ \A s \in 0..(Len(AvailableScreens) - 1) :
          (/\ run_pc = "fetch"
           /\ s < Len(screens)
           /\ iteration_count + Len(screens) <= MaxIterations
           /\ current_cycle + 1 < MaxCycles)
          ~> (run_pc = "next" /\ current_screen = s)

\* of three screens the third is at the display step a second time, its
\* frame skipped as the one before it, the four other frames displayed
C39_Witness ==
    /\ run_pc = "next"
    /\ Len(screens) = 3
    /\ iteration_count = 5
    /\ current_screen = 2
    /\ lastCall.action = "Skipped"
    /\ refresh_count = 4
    /\ last_screen_number = 1

\* C31: on the hardware, once the sequencer has wrapped, a displayed frame
\* of the first screen is a full repaint, whatever frames were skipped
\* before it
C31_WrapFullRepaint ==
    [][(/\ run_pc = "display"
        /\ ~simulation_mode
        /\ next_calls >= Len(screens)
        /\ current_screen = 0
        /\ lastCall'.kind = "data"
        /\ ~lastCall'.raised
        /\ run_pc' = "next")
       => lastCall'.action = "FullRepaint"]_vars

(***************************************************************************)
(* Properties of the display service (checked under SpecDisplay)           *)
(***************************************************************************)
\* the call observed is display_screen_with_smart_refresh with present data
IsFrame(c) == c.op = "display_screen_with_smart_refresh" /\ c.kind = "data"
\* ... and it returned without a Display Capability failure
IsDisplayed(c) == IsFrame(c) /\ ~c.raised
ScreenNumbers(h) == [i \in 1..Len(h) |-> h[i][1]]
Actions(h) == [i \in 1..Len(h) |-> h[i][2]]

\* the period of the ghost-prevention full refresh ("every 20 displays")
GhostPeriod == 20

\* C2: in hardware mode, a fresh session fed the frames (1,3),(2,3),(3,3),
\* (1,3) repaints full, partial, partial, full; and every displayed frame
\* with screen_number 1 whose previous displayed frame had screen_number ==
\* total_screens issues init, display, displayPartBaseImage, re-captures
\* base_image from the frame and adds exactly 1 to current_cycle.
C2_CycleBoundaryFull ==
    /\ []((/\ ~simulation_mode
           /\ total_screens = 3
           /\ history # Overflow
           /\ ScreenNumbers(history) = <<1, 2, 3, 1>>)
          => Actions(history)
               = <<"FullRepaint", "PartialRepaint", "PartialRepaint", "FullRepaint">>)
    /\ [][(/\ ~simulation_mode
           /\ IsDisplayed(lastCall')
           /\ lastCall'.screen_number = 1
           /\ last_screen_number = total_screens)
          => /\ lastCall'.action = "FullRepaint"
             /\ lastCall'.epd = <<"init", "display", "displayPartBaseImage">>
             /\ base_image' = lastCall'.image
             /\ partial_refresh_initialized'
             /\ current_cycle' = current_cycle + 1
         ]_vars

\* C2 witness: the four frames of the 3-screen cycle were pushed in order and
\* the fourth closed cycle 1
C2_Witness ==
    /\ ~simulation_mode
    /\ total_screens = 3
    /\ history = << <<1, "FullRepaint">>, <<2, "PartialRepaint">>,
                    <<3, "PartialRepaint">>, <<1, "FullRepaint">> >>
    /\ IsDisplayed(lastCall)
    /\ current_cycle = 1

\* C3: in hardware mode the first frame displayed after construction or
\* (re)initialization, whatever its screen_number, is a full repaint (init,
\* display), stores the frame as base_image, commits it with
\* displayPartBaseImage, sets partial_refresh_initialized and leaves
\* current_cycle at 0.
C3_FirstFrameBaseline ==
    (/\ ~simulation_mode
     /\ IsDisplayed(lastCall)
     /\ history # Overflow
     /\ Len(history) = 1)
    => /\ history[1] = <<lastCall.screen_number, "FullRepaint">>
       /\ lastCall.epd = <<"init", "display", "displayPartBaseImage">>
       /\ base_image = lastCall.image
       /\ partial_refresh_initialized
       /\ current_cycle = 0

\* C3 witness: a session whose first displayed frame is the last screen of a
\* 3-screen cycle
C3_Witness ==
    /\ ~simulation_mode
    /\ IsDisplayed(lastCall)
    /\ history # Overflow
    /\ Len(history) = 1
    /\ total_screens = 3
    /\ lastCall.screen_number = 3
    /\ base_image = "imgB"

\* C4: display_screen_with_smart_refresh with screen_data None or empty
\* issues no Display Capability call and leaves refresh_count,
\* last_screen_number, current_cycle, partial_refresh_initialized and
\* base_image unchanged, in hardware and in simulation mode.
C4_AbsentFrameSkipped ==
    [][(/\ lastCall'.op = "display_screen_with_smart_refresh"
        /\ lastCall'.kind \in {"None", "empty"})
       => /\ lastCall'.epd = <<>>
          /\ UNCHANGED <<refresh_count, last_screen_number, current_cycle,
                         partial_refresh_initialized, base_image>>
      ]_vars

\* C4 witness: an empty screen_data handed to a session that has a baseline
C4_Witness ==
    /\ lastCall.op = "display_screen_with_smart_refresh"
    /\ lastCall.kind = "empty"
    /\ lastCall.action = "Skipped"
    /\ partial_refresh_initialized
    /\ refresh_count > 0

\* C5: the frame that brings the frame counter to the ghost-prevention
\* period (the 20th frame) and is not a cycle boundary is pushed as a full
\* repaint, and the counter is reset.
C5_PeriodicFullRepaint ==
    [][(/\ ~simulation_mode
        /\ IsDisplayed(lastCall')
        /\ refresh_count + 1 = GhostPeriod
        /\ ~cycle_completed(last_screen_number, lastCall'.screen_number, total_screens))
       => /\ lastCall'.action = "FullRepaint"
          /\ refresh_count' = 0
      ]_vars

\* C6: in hardware mode with total_screens = 1 every frame (1,1) is a full
\* repaint and never issues displayPartial: the first of a session through
\* baseline initialization (current_cycle unchanged), every later one through
\* the cycle-boundary rule (current_cycle + 1).
C6_SingleScreenAlwaysFull ==
    [][(/\ ~simulation_mode
        /\ total_screens = 1
        /\ IsFrame(lastCall'))
       => /\ lastCall'.action = "FullRepaint"
          /\ \A i \in 1..Len(lastCall'.epd) : lastCall'.epd[i] # "displayPartial"
          /\ current_cycle' = IF last_screen_number = NoScreen
                              THEN current_cycle ELSE current_cycle + 1
      ]_vars

\* C6 witness: three frames (1,1) displayed, all full, two cycles counted
C6_Witness ==
    /\ ~simulation_mode
    /\ total_screens = 1
    /\ history = << <<1, "FullRepaint">>, <<1, "FullRepaint">>, <<1, "FullRepaint">> >>
    /\ current_cycle = 2

\* C7 as stated: every non-skipped frame sets last_screen_number to the
\* frame's screen_number and adds 1 to refresh_count, and a frame that
\* performs a full repaint resets refresh_count to 0.
C7_CounterResetOnFull ==
    [][IsDisplayed(lastCall')
       => /\ last_screen_number' = lastCall'.screen_number
          /\ refresh_count' = IF lastCall'.action = "FullRepaint"
                              THEN 0 ELSE refresh_count + 1
      ]_vars

\* C7 amended: every non-skipped frame that returns normally, in hardware
\* and in simulation mode, sets last_screen_number to the frame's
\* screen_number and adds exactly 1 to refresh_count, full repaints
\* included: no frame resets the counter.
C7_CounterNeverReset ==
    [][IsDisplayed(lastCall')
       => /\ last_screen_number' = lastCall'.screen_number
          /\ refresh_count' = refresh_count + 1
      ]_vars

\* C7 witness: a cycle-boundary full repaint that left the counter above 1
C7_Witness ==
    /\ IsDisplayed(lastCall)
    /\ lastCall.action = "FullRepaint"
    /\ current_cycle > 0
    /\ refresh_count > 1
    /\ last_screen_number = lastCall.screen_number

\* C8: after initialize_display returns, in hardware and in simulation mode
\* alike, the refresh state has its initial values.
C8_InitializeResets ==
    (lastCall.op = "initialize_display" /\ ~lastCall.raised)
    => /\ partial_refresh_initialized = FALSE
       /\ base_image = None
       /\ last_screen_number = NoScreen
       /\ current_cycle = 0
       /\ refresh_count = 0

\* C20: a failure of a Display Capability operation (init, display,
\* displayPartBaseImage, displayPartial) during
\* display_screen_with_smart_refresh reaches the caller as an error: the
\* failing operation was issued once and is the last one issued (no retry,
\* nothing after it), and the frame is not counted as displayed
C20_FailurePropagates ==
    [][(/\ lastCall'.op = "display_screen_with_smart_refresh"
        /\ lastCall'.kind = "data"
        /\ lastCall'.failed_at > 0)
         => LET epd == lastCall'.epd
                arm == IF Head(epd) = "displayPartial"
                       THEN <<"displayPartial">>
                       ELSE <<"init", "display", "displayPartBaseImage">>
            IN  /\ lastCall'.raised
                /\ Len(epd) = lastCall'.failed_at
                /\ epd = SubSeq(arm, 1, Len(epd))
                /\ refresh_count' = refresh_count
                /\ last_screen_number' = last_screen_number
                /\ history' = history
       ]_vars

\* the frame's displayPartBaseImage failed after init and display succeeded
C20_Witness ==
    /\ lastCall.op = "display_screen_with_smart_refresh"
    /\ lastCall.failed_at = 3
    /\ lastCall.raised
    /\ lastCall.epd = <<"init", "display", "displayPartBaseImage">>
    /\ base_image = lastCall.image
    /\ ~partial_refresh_initialized

\* the full repaints among the Display Capability calls of a frame
FullRepaints(epd) == Cardinality({i \in 1..Len(epd) : epd[i] = "display"})

\* C28: a call of display_screen_with_smart_refresh issues at most one full
\* repaint; a completed cycle takes the cycle arm whatever the other trigger
\* says, and on the hardware the cycle trigger and the baseline trigger are
\* never both set before a frame
C28_OneFullRepaint ==
    /\ []((~simulation_mode /\ last_screen_number # NoScreen)
            => ~needs_baseline(partial_refresh_initialized, base_image))
    /\ [][IsFrame(lastCall') /\ lastCall' # lastCall
           => /\ FullRepaints(lastCall'.epd) <= 1
              /\ (~simulation_mode /\
                   cycle_completed(last_screen_number, lastCall'.screen_number,
                                   total_screens))
                 => current_cycle' = current_cycle + 1]_vars

\* a frame completed a cycle and was repainted in full, once
C28_Witness ==
    /\ IsDisplayed(lastCall)
    /\ ~simulation_mode
    /\ lastCall.action = "FullRepaint"
    /\ FullRepaints(lastCall.epd) = 1
    /\ current_cycle = 2
    /\ lastCall.screen_number = 1
    /\ total_screens = 2

\* C34 (checked under SpecHardware): a partial repaint is issued only with
\* partial_refresh_initialized set, a base_image held, and the panel left
\* by a displayPartBaseImage with no init or Clear since
C34_PartialOnBaseline ==
    [][(/\ lastCall'.op = "display_screen_with_smart_refresh"
        /\ refresh_count' = refresh_count + 1
        /\ \E i \in 1..Len(lastCall'.epd) : lastCall'.epd[i] = "displayPartial")
       => /\ panel = "baseline"
          /\ panel' = "baseline"
          /\ partial_refresh_initialized
          /\ base_image # None]_vars

\* a partial repaint on the baseline committed after initialize_display
C34_Witness ==
    /\ lastCall.action = "PartialRepaint"
    /\ lastCall.epd = <<"displayPartial">>
    /\ panel = "baseline"
    /\ refresh_count = 2
    /\ current_cycle = 0
    /\ history = <<<<1, "FullRepaint">>, <<2, "PartialRepaint">>>>

\* C35: on the hardware a frame that is displayed without failure leaves
\* partial_refresh_initialized set and a base_image held; a full repaint
\* makes the frame the base_image, a partial repaint leaves base_image as it
\* was.  base_image is the frame of the most recent full repaint: a frame
\* that fails replaces it only if its epd.display had returned.
C35_BaselineIsLastFull ==
    [][(/\ lastCall'.op = "display_screen_with_smart_refresh"
        /\ lastCall'.kind = "data"
        /\ ~simulation_mode
        /\ lastCall' # lastCall \/ refresh_count' # refresh_count)
       => /\ ~lastCall'.raised
               => /\ partial_refresh_initialized'
                  /\ base_image' # None
                  /\ lastCall'.action = "FullRepaint"
                       => base_image' = lastCall'.image
                  /\ lastCall'.action = "PartialRepaint"
                       => base_image' = base_image
          /\ lastCall'.raised
               => base_image' = IF Len(lastCall'.epd) >= 3
                                THEN lastCall'.image ELSE base_image]_vars

\* a partial repaint of another frame left the base_image of the last full
\* repaint in place
C35_Witness ==
    /\ IsDisplayed(lastCall)
    /\ ~simulation_mode
    /\ lastCall.action = "PartialRepaint"
    /\ lastCall.image = "imgB"
    /\ base_image = "imgA"
    /\ partial_refresh_initialized
    /\ history = <<<<1, "FullRepaint">>, <<2, "PartialRepaint">>,
                   <<3, "PartialRepaint">>>>

\* C36: fed the same sequence of frames, present or absent, an instance in
\* simulation mode and one on hardware that never fails hold the same
\* last_screen_number, current_cycle and refresh_count after each call.
C36_ModesAgree ==
    twin = [last_screen_number |-> last_screen_number,
            current_cycle |-> current_cycle,
            refresh_count |-> refresh_count]

\* both have counted a completed cycle and three frames, the last call
\* having been handed absent data
C36_Witness ==
    /\ lastCall.action = "Skipped"
    /\ ~simulation_mode
    /\ total_screens = 2
    /\ current_cycle = 1
    /\ twin.current_cycle = 1
    /\ twin.refresh_count = 3
    /\ twin.last_screen_number = 1
    /\ history = <<<<1, "FullRepaint">>, <<2, "PartialRepaint">>,
                   <<1, "FullRepaint">>>>

\* C37: a frame during which a Display Capability call raises leaves
\* current_cycle, last_screen_number, refresh_count,
\* partial_refresh_initialized and base_image as they were before the call,
\* and partial_refresh_initialized is never true unless a baseline was
\* committed after the latest epd.init.
C37_FailedFrameLeavesState ==
    /\ [](partial_refresh_initialized => panel = "baseline")
    /\ [][(/\ lastCall'.op = "display_screen_with_smart_refresh"
            /\ lastCall'.raised)
           => UNCHANGED <<current_cycle, last_screen_number, refresh_count,
                          partial_refresh_initialized, base_image>>]_vars

\* C32: on the hardware, with no Display Capability failure, the n-th
\* display_image call since initialization returns; it issues init, display,
\* init_fast when n is a multiple of 20 and otherwise display_fast, preceded
\* by init_fast if no fast refresh was initialized before
C32_ImageRefreshPolicy ==
    [][(/\ lastCall'.op = "display_image"
        /\ ~simulation_mode
        /\ refresh_count' = refresh_count + 1
        /\ lastCall'.failed_at = 0)
       => /\ ~lastCall'.raised
          /\ IF refresh_count' % 20 = 0
             THEN lastCall'.epd = <<"init", "display", "init_fast">>
             ELSE lastCall'.epd = IF fast_refresh_initialized = "True"
                                  THEN <<"display_fast">>
                                  ELSE <<"init_fast", "display_fast">>]_vars

(***************************************************************************)
(* Properties of the data providers (checked under SpecProviders)          *)
(***************************************************************************)
\* the step is a call of the provider named call (the clock stands still
\* during a call; every call leaves its observation in lastFetch)
IsCallOf(call) == now' = now /\ lastFetch'.call = call
\* the store d without key
Without(d, key) == [k \in DOMAIN d \ {key} |-> d[k]]
\* the key is absent from d or its entry is older than its ttl
Misses(d, key, current_time) ==
    key \in DOMAIN d => current_time - d[key].timestamp > d[key].ttl

\* C13: get_ttl_for_screen(category) returns the override of the category
\* when the override table has one and the default TTL otherwise, and it
\* changes no state
C13_ResolveTtl ==
    /\ [](lastFetch.call = "get_ttl_for_screen"
            => lastFetch.ttl = IF lastFetch.arg \in DOMAIN screen_cache_config
                               THEN screen_cache_config[lastFetch.arg]
                               ELSE default_ttl)
    /\ [][IsCallOf("get_ttl_for_screen")
            => UNCHANGED <<_cache, default_ttl, screen_cache_config, stored>>]_vars

\* a category with an override different from the default was resolved
C13_Witness ==
    /\ lastFetch.call = "get_ttl_for_screen"
    /\ lastFetch.arg \in DOMAIN screen_cache_config
    /\ screen_cache_config[lastFetch.arg] # default_ttl
    /\ lastFetch.ttl = screen_cache_config[lastFetch.arg]

C15_MissStoreHitMiss ==
    [][\A p \in CachingProviders :
         (IsCallOf(p) /\ (p = "weather" => configured)) =>
           LET key == provider_key(p)
               T == IF p \in DOMAIN screen_cache_config
                    THEN screen_cache_config[p] ELSE default_ttl
               fresh == provider_source(p) \o "@" \o ToString(now)
               within == stored[p].live /\ now - stored[p].timestamp <= stored[p].ttl
           IN  /\ stored[p].live => stored[p].ttl = T
               /\ within =>
                     /\ lastFetch'.ret = stored[p].data \o " (cached)"
                     /\ lastFetch'.contacted = <<>>
                     /\ _cache' = _cache
                     /\ stored' = stored
               /\ ~within =>
                     /\ lastFetch'.contacted = <<provider_source(p)>>
                     /\ lastFetch'.upstream = "ok" =>
                           /\ lastFetch'.ret = fresh
                           /\ key \in DOMAIN _cache'
                           /\ _cache'[key] = Entry(fresh, now, T)
                           /\ stored'[p] = [live |-> TRUE, data |-> fresh,
                                            timestamp |-> now, ttl |-> T]
       ]_vars

\* a call exactly T >= 1 after the store was answered from the cache
C15_Witness ==
    \E p \in CachingProviders :
        /\ lastFetch.call = p
        /\ lastFetch.contacted = <<>>
        /\ stored[p].live
        /\ stored[p].ttl >= 1
        /\ now - stored[p].timestamp = stored[p].ttl
        /\ lastFetch.ret = mark_cached(stored[p].data)

\* the payloads the upstreams deliver, none of which carries the marker
Payloads ==
    {s \o "@" \o ToString(t) :
        s \in SourceNames \cup {provider_source(p) : p \in CachingProviders},
        t \in 0..MaxTime}
\* the key a provider looks up
lookup_key(call) ==
    IF call = "bitcoin_prices" THEN btc_key(crypto_source) ELSE provider_key(call)

\* C29: a provider call answered from the cache returns the stored payload
\* followed by one " (cached)" marker and leaves the store as it was; no
\* stored payload ever carries the marker
C29_HitLeavesStored ==
    /\ [](\A k \in DOMAIN _cache : _cache[k].data \in Payloads)
    /\ [][\A call \in CachingProviders \cup {"bitcoin_prices"} :
            (/\ IsCallOf(call)
             /\ call = "weather" => configured
             /\ ~Misses(_cache, lookup_key(call), now))
            => /\ lastFetch'.ret = _cache[lookup_key(call)].data \o " (cached)"
               /\ lastFetch'.ret \in {p \o " (cached)" : p \in Payloads}
               /\ _cache' = _cache]_vars

\* a bitcoin call was answered from an entry stored at an earlier time; the
\* entry is as it was stored
C29_Witness ==
    /\ lastFetch.call = "bitcoin_prices"
    /\ lastFetch.contacted = <<>>
    /\ btc_key(crypto_source) \in DOMAIN _cache
    /\ _cache[btc_key(crypto_source)].timestamp < now
    /\ _cache[btc_key(crypto_source)].data =
          crypto_source \o "@" \o ToString(_cache[btc_key(crypto_source)].timestamp)
    /\ lastFetch.ret = _cache[btc_key(crypto_source)].data \o " (cached)"

\* the fallback entries of d that are within their TTL at current_time
valid_fallbacks(d, current_time) ==
    {s \in SourceNames :
        /\ "btc_prices_" \o s \o "_fallback" \in DOMAIN d
        /\ ~Misses(d, "btc_prices_" \o s \o "_fallback", current_time)}

C17_SetGetSerializable ==
    \A a, b \in Threads :
        (/\ threads[a].op = "set" /\ Finished(threads[a])
         /\ threads[b].op = "get" /\ Finished(threads[b])
         /\ threads[a].key = threads[b].key
         /\ threads[a].key \in DOMAIN cache0
         /\ now - cache0[threads[a].key].timestamp > cache0[threads[a].key].ttl)
          => LET k == threads[a].key
                 ttl == IF threads[a].ttl = NoTtl THEN default_ttl
                        ELSE threads[a].ttl
                 fresh == Entry(threads[a].data, now, ttl)
             IN  /\ k \in DOMAIN _cache
                 /\ _cache = [key \in DOMAIN cache0 |->
                                IF key = k THEN fresh ELSE cache0[key]]
                 /\ threads[b].status = "returned"
                 /\ threads[b].ret \in {None, threads[a].data}

\* C18: cleanup_expired() deletes no entry that is valid at the moment of
\* its deletion: a key re-set while the sweep runs holds its fresh value when
\* the sweep and the set have returned
C18_SweepKeepsValid ==
    \A a, b \in Threads :
        threads[a].op = "cleanup" =>
          /\ \A r \in threads[a].removed :
                now - r.entry.timestamp > r.entry.ttl
          /\ (/\ threads[a].status = "returned"
              /\ threads[b].op = "set"
              /\ threads[b].status = "returned")
               => /\ threads[b].key \in DOMAIN _cache
                  /\ _cache[threads[b].key].data = threads[b].data
                  /\ _cache[threads[b].key].timestamp = now

\* C19: under every interleaving of get, set, invalidate and
\* cleanup_expired calls no call raises
C19_NoCallRaises ==
    \A t \in Threads : threads[t].status # "raised"

====
